---- MODULE Spec2Model ----
(***************************************************************************)
(* The rate-limited signal store (signal_manager.py) and the signal scorer *)
(* (trading_engine.py) as state machines.                                  *)
(*                                                                         *)
(* Time is an integer number of ticks, Resolution ticks to the second; a   *)
(* datetime is the tick count since an arbitrary epoch.  A Python dict is  *)
(* a record; a key the dict lacks holds the sentinel of its type           *)
(* (NoTimestamp, NoField, NoNumber).                                        *)
(***************************************************************************)
EXTENDS Integers, Sequences, FiniteSets, TLC

VARIABLES
    now,        \* the wall clock, datetime.now()
    signals,    \* SignalManager.signals: the in-memory history, newest first
    container,  \* the Python type of self.signals: "list", or "other" for an empty non-list
    file,       \* the content of signal_history.json
    last,       \* the last operation on the store, its argument and its return value
    steps,      \* operations performed so far (bounds the exploration)
    results,    \* the calls of add_signal so far: when, and what each returned
    pc,         \* per producer thread: where it is inside add_signal
    cand,       \* per producer thread: the signal it is adding
    sliced,     \* per producer thread: the value of self.signals[:100] it computed
    data,       \* per producer thread: the list _save_signals built for json.dump
    spc,        \* where the scorer is inside generate_binary_trading_signal
    args,       \* the arguments of the scorer's call
    price,      \* latest_close and previous_close
    acc,        \* signal_strength, signal_direction, technical_reasons, entry_signals
    absorbed,   \* the helpers that failed during the call and returned their default
    fired,      \* the branch whose condition held in the rule evaluated last
    result,     \* what generate_binary_trading_signal returned
    last_signal_check,  \* st.session_state.last_signal_check
    view,       \* what the handler that ran last evaluated and presented
    rerun,      \* whether the page's script has asked to be run again (st.rerun)
    cache,      \* TradingEngine.cache: for each key the frame stored and when
    served,     \* what the last call of get_market_data did
    fncall,     \* a function under test and its arguments
    fnret,      \* what that function returned
    peer        \* a second SignalManager on the same file: its self.signals

storeVars == <<now, signals, container, file, last, steps, results>>
threadVars == <<pc, cand, sliced, data>>
scoreVars == <<spc, args, price, acc, absorbed, fired, result>>
appVars == <<last_signal_check, view, rerun>>
engineVars == <<cache, served>>
fnVars == <<fncall, fnret>>

----------------------------------------------------------------------------
(* Bounds of the exploration *)

Resolution == 2       \* ticks per second: the sub-second part of a datetime
MaxSteps == 5         \* operations in one behaviour of the store
MaxCalls == 6         \* add_signal calls in one behaviour of the rate-limit scenario
FillCount == 105      \* signals recorded in the truncation scenario
NumProducers == 2     \* threads calling add_signal on one store
MaxConcCalls == 4     \* add_signal calls in one behaviour of the threaded store
MaxConcHours == 1     \* hours that pass in one behaviour of the threaded store

(* Program constants *)

max_signals_per_hour == 3
MaxHistory == 100
SecondsPerHour == 3600
HoursPerDay == 24
DefaultRetentionDays == 7

hours(n) == n * SecondsPerHour * Resolution
days(n) == n * HoursPerDay * hours(1)

NoTimestamp == 0 - 1          \* the record has no 'timestamp' key
NoNumber == 0 - 1             \* the record has no 'confidence' key
NoField == "absent"           \* the record has no such string-valued key

Take(s, n) == SubSeq(s, 1, IF Len(s) < n THEN Len(s) ELSE n)

----------------------------------------------------------------------------
(* datetime.isoformat / datetime.fromisoformat.  The text form is the      *)
(* sequence <<seconds>> when the sub-second part is zero and               *)
(* <<seconds, fraction>> otherwise; <<>> stands for a JSON object without  *)
(* a 'timestamp' key and <<NoTimestamp>> for a string that is no ISO date. *)

\* An isoformat that always drops the sub-second part (timespec='seconds').
IsoformatSeconds(t) == << t \div Resolution >>

isoformat(t) ==
    IF t % Resolution = 0
    THEN << t \div Resolution >>
    ELSE << t \div Resolution, t % Resolution >>

ValidIso(s) == Len(s) \in {1, 2} /\ s[1] >= 0

fromisoformat(s) ==
    IF Len(s) = 1 THEN s[1] * Resolution ELSE s[1] * Resolution + s[2]

----------------------------------------------------------------------------
(* Files.  kind: "missing" (no file), "garbage" (not JSON, e.g. a          *)
(* partial write), "emptyobject" (the JSON text {} or ""), "scalar" (any   *)
(* other non-list JSON document), "list" (a JSON list of objects).         *)

NoFile == [kind |-> "missing", entries |-> << >>]
Garbage == [kind |-> "garbage", entries |-> << >>]
EmptyObject == [kind |-> "emptyobject", entries |-> << >>]
Scalar == [kind |-> "scalar", entries |-> << >>]
JsonList(es) == [kind |-> "list", entries |-> es]

\* One stored record as _save_signals writes it: a copy with the timestamp as text.
ToJson(sig) == [sig EXCEPT !.timestamp = isoformat(sig.timestamp)]
\* One loaded record: the timestamp text converted back to a datetime.
FromJson(e) == [e EXCEPT !.timestamp = fromisoformat(e.timestamp)]

\* The body of the try block of _load_signals: what it returns, or raised.
LoadAttempt(f) ==
    IF f.kind = "missing" THEN [raised |-> FALSE, container |-> "list", items |-> << >>]
    ELSE IF f.kind = "garbage"
         THEN [raised |-> TRUE, container |-> "list", items |-> << >>]   \* JSONDecodeError
    ELSE IF f.kind = "emptyobject"
         THEN [raised |-> FALSE, container |-> "other", items |-> << >>] \* the loop runs 0 times
    ELSE IF f.kind = "scalar"
         THEN [raised |-> TRUE, container |-> "list", items |-> << >>]   \* TypeError
    ELSE IF \E i \in 1..Len(f.entries) : ~ValidIso(f.entries[i].timestamp)
         THEN \* KeyError or ValueError at the first such entry
              [raised |-> TRUE, container |-> "list", items |-> << >>]
         ELSE [raised |-> FALSE, container |-> "list",
               items |-> [i \in 1..Len(f.entries) |-> FromJson(f.entries[i])]]

\* A _load_signals that lets the exception escape to the constructor.
LoadWithoutExcept(f) == LoadAttempt(f)

\* _load_signals: any exception while reading or converting gives [].
_load_signals(f) ==
    IF LoadAttempt(f).raised
    THEN [raised |-> FALSE, container |-> "list", items |-> << >>]
    ELSE LoadAttempt(f)

\* _save_signals: the list of copies is built first (a record without a
\* timestamp raises there, and the file is left as it was), then written.
_save_signals(sigs, f) ==
    IF \E i \in 1..Len(sigs) : sigs[i].timestamp = NoTimestamp
    THEN f
    ELSE JsonList([i \in 1..Len(sigs) |-> ToJson(sigs[i])])

----------------------------------------------------------------------------
(* Rate limiting *)

IsRecent(sig, t) == sig.timestamp > t - hours(1)

RecentCount(sigs, t) == Cardinality({i \in 1..Len(sigs) : IsRecent(sigs[i], t)})

\* A limiter that compares with <= and so lets one signal too many through.
CanAddOffByOne(sigs, t) ==
    IF \E i \in 1..Len(sigs) : sigs[i].timestamp = NoTimestamp
    THEN TRUE
    ELSE RecentCount(sigs, t) <= max_signals_per_hour

\* _can_add_signal: True when the count fails (a stored record has no timestamp).
_can_add_signal(sigs, t) ==
    IF \E i \in 1..Len(sigs) : sigs[i].timestamp = NoTimestamp
    THEN TRUE
    ELSE RecentCount(sigs, t) < max_signals_per_hour

\* The print after the save formats direction, pair and confidence.
PrintRaises(sig) ==
    \/ sig.direction = NoField
    \/ sig.pair = NoField
    \/ sig.confidence = NoNumber

----------------------------------------------------------------------------
(* Records *)

Signal(id, t) ==
    [id |-> id, timestamp |-> t, pair |-> "EUR/USD", direction |-> "BUY", confidence |-> 90]

NoCandidate == [id |-> 0 - 1, timestamp |-> NoTimestamp, pair |-> NoField,
                direction |-> NoField, confidence |-> NoNumber]

WellFormed(sig) ==
    /\ sig.timestamp # NoTimestamp
    /\ ~PrintRaises(sig)

\* What a caller may hand to add_signal at time t.
Candidates(t) ==
    { Signal(0, t),
      [Signal(0, t) EXCEPT !.direction = NoField],
      [Signal(0, t) EXCEPT !.timestamp = NoTimestamp] }

----------------------------------------------------------------------------
(* The operations of the store *)

\* list.insert(0, x)
insert0(sigs, sig) == <<sig>> \o sigs

\* A truncation that keeps the tail, self.signals[-100:].
KeepLast(sigs) ==
    IF Len(sigs) <= MaxHistory THEN sigs ELSE SubSeq(sigs, Len(sigs) - MaxHistory + 1, Len(sigs))

\* self.signals[:100]
KeepFirst(sigs) == Take(sigs, MaxHistory)

Called(op, ret, arg) == [op |-> op, ret |-> ret, arg |-> arg]

\* add_signal(sig): the whole handler, at the current clock.
add_signal(sig) ==
    IF ~_can_add_signal(signals, now)
    THEN /\ UNCHANGED <<signals, container, file>>
         /\ last' = Called("add", FALSE, sig)
    ELSE IF container # "list"
    THEN \* self.signals.insert raises AttributeError, caught: return False
         /\ UNCHANGED <<signals, container, file>>
         /\ last' = Called("add", FALSE, sig)
    ELSE /\ signals' = KeepFirst(insert0(signals, sig))
         /\ container' = container
         /\ file' = _save_signals(signals', file)
         \* the print raises after the save: caught, return False
         /\ last' = Called("add", ~PrintRaises(sig), sig)

\* cleanup_old_signals(d): a record without a timestamp raises in the filter,
\* before the assignment and the save.
cleanup_old_signals(d) ==
    /\ last' = [op |-> "cleanup", ret |-> TRUE, arg |-> NoCandidate, days |-> d]
    /\ IF \E i \in 1..Len(signals) : signals[i].timestamp = NoTimestamp
       THEN UNCHANGED <<signals, container, file>>
       ELSE /\ signals' = SelectSeq(signals, LAMBDA s : s.timestamp > now - days(d))
            /\ container' = "list"
            /\ file' = _save_signals(signals', file)

\* SignalManager(): the constructor, reading the file as it is.
Construct ==
    /\ signals' = _load_signals(file).items
    /\ container' = _load_signals(file).container
    /\ file' = file
    /\ last' = Called("construct", ~_load_signals(file).raised, NoCandidate)

Budget == steps < MaxSteps /\ steps' = steps + 1

Producers == 1..NumProducers

\* No thread is inside add_signal.
ThreadsIdle ==
    /\ pc = [p \in Producers |-> "idle"]
    /\ cand = [p \in Producers |-> NoCandidate]
    /\ sliced = [p \in Producers |-> << >>]
    /\ data = [p \in Producers |-> << >>]

----------------------------------------------------------------------------
(* The signal scorer: TradingEngine.generate_binary_trading_signal.        *)
(* Prices and indicator values are small integers; bb_position is in       *)
(* hundredths, the 5-bar price change in thousandths of a percent, volume  *)
(* ratios in tenths and the news sentiment in hundredths.  An indicator    *)
(* series that is missing or empty is EmptySeries.                         *)

MinBars == 50
EmptySeries == 0 - 1

NoDirection == "None"

\* The accumulators of lines 123-126.
acc0 == [strength |-> 0, direction |-> NoDirection, reasons |-> << >>, entries |-> << >>]

\* A rule that fires and sets the direction.
Vote(a, w, dir, reason, entry) ==
    [strength |-> a.strength + w, direction |-> dir,
     reasons |-> Append(a.reasons, reason), entries |-> Append(a.entries, entry)]

\* A guarded rule that votes whatever direction is committed.
UngatedVote(a, w, dir, reason, entry) == Vote(a, w, dir, reason, entry)

\* A rule guarded by `signal_direction == dir or signal_direction is None`.
GatedVote(a, w, dir, reason, entry) ==
    IF a.direction = dir \/ a.direction = NoDirection
    THEN Vote(a, w, dir, reason, entry)
    ELSE a

\* indicators.get(name, pd.Series()).iloc[-1] if not ... .empty else default
LatestOr(series, default) == IF series = EmptySeries THEN default ELSE series

\* 1. RSI analysis, lines 131-150
RsiRule(a, rsi) ==
    IF rsi < 20 THEN Vote(a, 40, "BUY", "RSI extreme oversold reversal", "Strong reversal setup")
    ELSE IF rsi < 30 THEN Vote(a, 25, "BUY", "RSI oversold reversal", "Reversal setup")
    ELSE IF rsi > 80 THEN Vote(a, 40, "SELL", "RSI extreme overbought reversal", "Strong reversal setup")
    ELSE IF rsi > 70 THEN Vote(a, 25, "SELL", "RSI overbought reversal", "Reversal setup")
    ELSE a

\* 2. Bollinger band breakout or bounce, lines 153-172
BollingerRule(a, close, prev, upper, lower, pos) ==
    IF close > upper /\ prev <= upper
    THEN Vote(a, 35, "BUY", "Bollinger Band breakout", "Fresh breakout confirmed")
    ELSE IF close < lower /\ prev >= lower
    THEN Vote(a, 35, "SELL", "Bollinger Band breakdown", "Fresh breakdown confirmed")
    ELSE IF pos < 5 /\ close > prev
    THEN Vote(a, 30, "BUY", "Bollinger Band bounce up", "Support bounce confirmed")
    ELSE IF pos > 95 /\ close < prev
    THEN Vote(a, 30, "SELL", "Bollinger Band bounce down", "Resistance bounce confirmed")
    ELSE a

\* 3. Moving averages, lines 175-204
MaRule(a, close, prev, ma_short, ma_long, prev_ma_short, prev_ma_long) ==
    IF ma_short > ma_long /\ prev_ma_short <= prev_ma_long
    THEN GatedVote(a, 25, "BUY", "Fresh MA bullish cross", "Trend change confirmed")
    ELSE IF ma_short < ma_long /\ prev_ma_short >= prev_ma_long
    THEN GatedVote(a, 25, "SELL", "Fresh MA bearish cross", "Trend change confirmed")
    ELSE IF ma_short > ma_long /\ close > ma_short /\ prev <= ma_short
    THEN GatedVote(a, 15, "BUY", "MA bullish breakout", "Trend continuation")
    ELSE IF ma_short < ma_long /\ close < ma_short /\ prev >= ma_short
    THEN GatedVote(a, 15, "SELL", "MA bearish breakdown", "Trend continuation")
    ELSE a

\* 4. MACD signal-line cross, lines 207-223
MacdRule(a, macd, macd_signal, prev_macd, prev_macd_signal) ==
    IF macd > macd_signal /\ prev_macd <= prev_macd_signal
    THEN GatedVote(a, 20, "BUY", "MACD bullish signal cross", "Momentum shift up")
    ELSE IF macd < macd_signal /\ prev_macd >= prev_macd_signal
    THEN GatedVote(a, 20, "SELL", "MACD bearish signal cross", "Momentum shift down")
    ELSE a

\* A classifier whose comparisons admit the thresholds themselves.
AnalyzeMomentumAtEdge(bars, change, ratio, fails) ==
    IF fails THEN "Neutral"
    ELSE IF bars < 10 THEN "Neutral"
    ELSE IF change >= 20 /\ ratio >= 12 THEN "Strong_Bullish"
    ELSE IF change <= 0 - 20 /\ ratio >= 12 THEN "Strong_Bearish"
    ELSE IF change >= 10 THEN "Bullish"
    ELSE IF change <= 0 - 10 THEN "Bearish"
    ELSE "Neutral"

\* analyze_short_term_momentum: bars = len(data), change = the 5-bar price
\* change, ratio = 3-bar over 10-bar mean volume (10 when there is no Volume
\* column or the 10-bar mean is 0); any exception gives Neutral.
analyze_short_term_momentum(bars, change, ratio, fails) ==
    IF fails THEN "Neutral"
    ELSE IF bars < 10 THEN "Neutral"
    ELSE IF change > 20 /\ ratio > 12 THEN "Strong_Bullish"
    ELSE IF change < 0 - 20 /\ ratio > 12 THEN "Strong_Bearish"
    ELSE IF change > 10 THEN "Bullish"
    ELSE IF change < 0 - 10 THEN "Bearish"
    ELSE "Neutral"

\* 5. Price momentum confirmation, lines 226-237
MomentumRule(a, momentum) ==
    IF momentum = "Strong_Bullish"
    THEN GatedVote(a, 15, "BUY", "Strong bullish momentum", "Price acceleration up")
    ELSE IF momentum = "Strong_Bearish"
    THEN GatedVote(a, 15, "SELL", "Strong bearish momentum", "Price acceleration down")
    ELSE a

\* A volume rule whose second test is an if of its own.
VolumeBothBranches(a, recent, avg) ==
    IF recent * 10 > avg * 18
    THEN [a EXCEPT !.strength = @ + 30,
                   !.reasons = @ \o <<"Exceptional volume surge", "Above average volume">>,
                   !.entries = Append(@, "High volume confirmation")]
    ELSE IF recent * 10 > avg * 13
    THEN [a EXCEPT !.strength = @ + 10,
                   !.reasons = Append(@, "Above average volume")]
    ELSE a

\* 6. Volume confirmation, lines 240-249: recent against 1.8 and 1.3 times avg
VolumeRule(a, recent, avg) ==
    IF recent * 10 > avg * 18
    THEN [a EXCEPT !.strength = @ + 20,
                   !.reasons = Append(@, "Exceptional volume surge"),
                   !.entries = Append(@, "High volume confirmation")]
    ELSE IF recent * 10 > avg * 13
    THEN [a EXCEPT !.strength = @ + 10,
                   !.reasons = Append(@, "Above average volume")]
    ELSE a

Abs(x) == IF x < 0 THEN 0 - x ELSE x

\* A sentiment rule that already acts at magnitude 0.3.
NewsRuleAtEdge(a, sentiment, fails) ==
    IF fails THEN a
    ELSE IF Abs(sentiment) >= 30
    THEN IF (sentiment > 0 /\ a.direction = "BUY") \/ (sentiment < 0 /\ a.direction = "SELL")
         THEN [a EXCEPT !.strength = @ + 15,
                        !.reasons = Append(@, "Strong news alignment"),
                        !.entries = Append(@, "News sentiment supports trade")]
         ELSE IF a.direction = NoDirection
         THEN [a EXCEPT !.direction = IF sentiment > 0 THEN "BUY" ELSE "SELL",
                        !.strength = @ + 10,
                        !.reasons = Append(@, "News-driven signal")]
         ELSE a
    ELSE a

\* 7. News sentiment, lines 252-264; a failing fetch is passed over.
\* A sentiment rule that overrides a direction it disagrees with.
NewsRuleOverrides(a, sentiment, fails) ==
    IF fails THEN a
    ELSE IF Abs(sentiment) > 30
    THEN IF (sentiment > 0 /\ a.direction = "BUY") \/ (sentiment < 0 /\ a.direction = "SELL")
         THEN [a EXCEPT !.strength = @ + 15,
                        !.reasons = Append(@, "Strong news alignment"),
                        !.entries = Append(@, "News sentiment supports trade")]
         ELSE [a EXCEPT !.direction = IF sentiment > 0 THEN "BUY" ELSE "SELL",
                        !.strength = @ + 10,
                        !.reasons = Append(@, "News-driven signal")]
    ELSE a

NewsRule(a, sentiment, fails) ==
    IF fails THEN a
    ELSE IF Abs(sentiment) > 30
    THEN IF (sentiment > 0 /\ a.direction = "BUY") \/ (sentiment < 0 /\ a.direction = "SELL")
         THEN [a EXCEPT !.strength = @ + 15,
                        !.reasons = Append(@, "Strong news alignment"),
                        !.entries = Append(@, "News sentiment supports trade")]
         ELSE IF a.direction = NoDirection
         THEN [a EXCEPT !.direction = IF sentiment > 0 THEN "BUY" ELSE "SELL",
                        !.strength = @ + 10,
                        !.reasons = Append(@, "News-driven signal")]
         ELSE a
    ELSE a

\* The branch of each rule whose condition holds, before the test of the
\* committed direction: the if/elif chains of lines 131-264.
NoTrigger == "none"

RsiTrigger(rsi) ==
    IF rsi < 20 THEN "rsi_extreme_oversold"
    ELSE IF rsi < 30 THEN "rsi_oversold"
    ELSE IF rsi > 80 THEN "rsi_extreme_overbought"
    ELSE IF rsi > 70 THEN "rsi_overbought"
    ELSE NoTrigger

BollingerTrigger(close, prev, upper, lower, pos) ==
    IF close > upper /\ prev <= upper THEN "bb_breakout"
    ELSE IF close < lower /\ prev >= lower THEN "bb_breakdown"
    ELSE IF pos < 5 /\ close > prev THEN "bb_bounce_up"
    ELSE IF pos > 95 /\ close < prev THEN "bb_bounce_down"
    ELSE NoTrigger

MaTrigger(close, prev, ma_short, ma_long, prev_ma_short, prev_ma_long) ==
    IF ma_short > ma_long /\ prev_ma_short <= prev_ma_long THEN "ma_bullish_cross"
    ELSE IF ma_short < ma_long /\ prev_ma_short >= prev_ma_long THEN "ma_bearish_cross"
    ELSE IF ma_short > ma_long /\ close > ma_short /\ prev <= ma_short THEN "ma_bullish_breakout"
    ELSE IF ma_short < ma_long /\ close < ma_short /\ prev >= ma_short THEN "ma_bearish_breakdown"
    ELSE NoTrigger

MacdTrigger(macd, macd_signal, prev_macd, prev_macd_signal) ==
    IF macd > macd_signal /\ prev_macd <= prev_macd_signal THEN "macd_bullish_cross"
    ELSE IF macd < macd_signal /\ prev_macd >= prev_macd_signal THEN "macd_bearish_cross"
    ELSE NoTrigger

MomentumTrigger(momentum) ==
    IF momentum = "Strong_Bullish" THEN "momentum_bullish"
    ELSE IF momentum = "Strong_Bearish" THEN "momentum_bearish"
    ELSE NoTrigger

VolumeTrigger(recent, avg) ==
    IF recent * 10 > avg * 18 THEN "volume_surge"
    ELSE IF recent * 10 > avg * 13 THEN "volume_above"
    ELSE NoTrigger

NewsTrigger(sentiment, fails) ==
    IF fails \/ Abs(sentiment) <= 30 THEN NoTrigger
    ELSE IF sentiment > 0 THEN "news_positive"
    ELSE "news_negative"

\* The weight the branch that appends a reason adds to signal_strength.
ReasonWeight(reason) ==
    IF reason \in {"RSI extreme oversold reversal", "RSI extreme overbought reversal"} THEN 40
    ELSE IF reason \in {"Bollinger Band breakout", "Bollinger Band breakdown"} THEN 35
    ELSE IF reason \in {"Bollinger Band bounce up", "Bollinger Band bounce down"} THEN 30
    ELSE IF reason \in {"RSI oversold reversal", "RSI overbought reversal",
                        "Fresh MA bullish cross", "Fresh MA bearish cross"} THEN 25
    ELSE IF reason \in {"MACD bullish signal cross", "MACD bearish signal cross",
                        "Exceptional volume surge"} THEN 20
    ELSE IF reason \in {"MA bullish breakout", "MA bearish breakdown",
                        "Strong bullish momentum", "Strong bearish momentum",
                        "Strong news alignment"} THEN 15
    ELSE 10

\* The direction of the branch that appends a reason; the volume reasons have
\* none.
ReasonDirection(reason) ==
    IF reason \in {"RSI extreme oversold reversal", "RSI oversold reversal",
                   "Bollinger Band breakout", "Bollinger Band bounce up",
                   "Fresh MA bullish cross", "MA bullish breakout",
                   "MACD bullish signal cross", "Strong bullish momentum"} THEN "BUY"
    ELSE IF reason \in {"RSI extreme overbought reversal", "RSI overbought reversal",
                        "Bollinger Band breakdown", "Bollinger Band bounce down",
                        "Fresh MA bearish cross", "MA bearish breakdown",
                        "MACD bearish signal cross", "Strong bearish momentum"} THEN "SELL"
    ELSE NoDirection

\* The direction a branch votes for.
BuyTriggers ==
    {"rsi_extreme_oversold", "rsi_oversold", "bb_breakout", "bb_bounce_up",
     "ma_bullish_cross", "ma_bullish_breakout", "macd_bullish_cross",
     "momentum_bullish", "news_positive"}

SellTriggers ==
    {"rsi_extreme_overbought", "rsi_overbought", "bb_breakdown", "bb_bounce_down",
     "ma_bearish_cross", "ma_bearish_breakdown", "macd_bearish_cross",
     "momentum_bearish", "news_negative"}

TriggerDirection(t) ==
    IF t \in BuyTriggers THEN "BUY"
    ELSE IF t \in SellTriggers THEN "SELL"
    ELSE NoDirection

\* get_market_session: the volatility tier at a UTC hour; any exception
\* gives Medium.
\* Sessions whose interval is closed at its end.
ActiveSessionsClosed(hour) ==
    (IF 0 <= hour /\ hour <= 9 THEN {"Tokyo"} ELSE {})
       \cup (IF 8 <= hour /\ hour <= 17 THEN {"London"} ELSE {})
       \cup (IF 13 <= hour /\ hour <= 22 THEN {"New_York"} ELSE {})

ActiveSessions(hour) ==
    (IF 0 <= hour /\ hour < 9 THEN {"Tokyo"} ELSE {})
       \cup (IF 8 <= hour /\ hour < 17 THEN {"London"} ELSE {})
       \cup (IF 13 <= hour /\ hour < 22 THEN {"New_York"} ELSE {})

get_market_session(hour, fails) ==
    IF fails THEN [sessions |-> {"Unknown"}, volatility |-> "Medium"]
    ELSE IF Cardinality(ActiveSessions(hour)) >= 2
    THEN [sessions |-> ActiveSessions(hour), volatility |-> "High"]
    ELSE IF Cardinality(ActiveSessions(hour)) = 1
    THEN [sessions |-> ActiveSessions(hour), volatility |-> "Medium"]
    ELSE [sessions |-> {"Off-Hours"}, volatility |-> "Low"]

\* _calculate_optimal_entry_timing: the delays it may return.  velocity is
\* the 2-bar price velocity in ten-thousandths; any exception gives 15.
_calculate_optimal_entry_timing(velocity, fails) ==
    IF fails THEN {15}
    ELSE IF Abs(velocity) > 10 THEN 5..14
    ELSE 25..39

\* Lines 288-293
ExpiryMinutes(timeframe, volatility) ==
    IF timeframe = "1m" THEN (IF volatility = "High" THEN 1 ELSE 2)
    ELSE IF timeframe = "5m" THEN (IF volatility = "High" THEN 5 ELSE 10)
    ELSE 15

\* Line 270
MinConfirmations(timeframe) == IF timeframe = "M1" THEN 2 ELSE 1

\* A confidence that is not clamped.
Unclamped(a) == a.strength

\* Line 267
Confidence(a) == IF a.strength < 100 THEN a.strength ELSE 100

\* An acceptance test of the confidence alone.
QualifiesByConfidence(a, threshold, timeframe) == Confidence(a) >= threshold

\* Lines 272-274
Qualifies(a, threshold, timeframe) ==
    /\ Confidence(a) >= threshold
    /\ a.direction # NoDirection
    /\ Len(a.reasons) >= MinConfirmations(timeframe)

NoSignal ==
    [kind |-> "None", direction |-> NoDirection, confidence |-> 0, reasons |-> << >>,
     entry_timing |-> << >>, expiry_minutes |-> 0, entry_delay |-> 0, volatility |-> "None"]

\* An except clause that lets the exception out.
ExceptReraises(e) == [NoSignal EXCEPT !.kind = "raise"]

\* except Exception as e: print(...); return None  (lines 323-325)
ExceptClause(e) == NoSignal

\* A returned dict whose reason joins two reasons only.
EmittedTwoReasons(a, timeframe, volatility, delay) ==
    [kind |-> "signal", direction |-> a.direction, confidence |-> Confidence(a),
     reasons |-> Take(a.reasons, 2), entry_timing |-> Take(a.entries, 2),
     expiry_minutes |-> ExpiryMinutes(timeframe, volatility),
     entry_delay |-> delay, volatility |-> volatility]

\* The returned dict, lines 302-319.
EmittedSignal(a, timeframe, volatility, delay) ==
    [kind |-> "signal", direction |-> a.direction, confidence |-> Confidence(a),
     reasons |-> Take(a.reasons, 3), entry_timing |-> Take(a.entries, 2),
     expiry_minutes |-> ExpiryMinutes(timeframe, volatility),
     entry_delay |-> delay, volatility |-> volatility]

Pending == [NoSignal EXCEPT !.kind = "pending"]

\* No call of the scorer is under way.
ScoreIdle ==
    /\ spc = "idle"
    /\ args = [data |-> "None", bars |-> 0, hasClose |-> TRUE, hasVolume |-> TRUE,
               indicators |-> "empty", threshold |-> 0, timeframe |-> "M1"]
    /\ price = [close |-> 0, prev |-> 0]
    /\ acc = acc0
    /\ absorbed = {}
    /\ fired = NoTrigger
    /\ result = Pending

----------------------------------------------------------------------------
(* The presentation layers: simple_binary_app.py (the Streamlit page) and  *)
(* index.py (the /api/signal endpoint).  Symbols and pairs are sequences   *)
(* of characters where the code slices them.                               *)

SecondsPerDay == HoursPerDay * SecondsPerHour
seconds(n) == n * Resolution

\* timedelta.seconds of a non-negative difference of d ticks: the days are
\* left out.
SecondsOf(d) == (d \div Resolution) % SecondsPerDay

PollSeconds == 30
ShowSeconds == 120
SleepAfterSignal == 2
SleepAfterScan == 5
AppThreshold == 75

\* pairs of get_simple_signal, simple_binary_app.py line 26
Pairs ==
    << <<"E","U","R","U","S","D","=","X">>, <<"G","B","P","U","S","D","=","X">>,
       <<"U","S","D","J","P","Y","=","X">>, <<"A","U","D","U","S","D","=","X">>,
       <<"U","S","D","C","A","D","=","X">>, <<"A","U","D","C","A","D","=","X">> >>

NoSymbol == << >>
Unknown == <<"U","N","K","N","O","W","N">>

\* get_market_data(symbol, interval, period): the frame the provider
\* returned, or None when it is empty or the fetch raised.  Nothing writes
\* the symbol into the frame's attrs.
get_market_data(symbol, fetched) ==
    IF fetched = "frame"
    THEN [kind |-> "frame", attrs_symbol |-> NoSymbol]
    ELSE [kind |-> "None", attrs_symbol |-> NoSymbol]

\* data.attrs.get('symbol', 'UNKNOWN')
AttrsSymbol(frame) == IF frame.attrs_symbol = NoSymbol THEN Unknown ELSE frame.attrs_symbol

\* symbol.replace('=X', '')
RECURSIVE RemoveEqX(_)
RemoveEqX(sym) ==
    IF Len(sym) < 2 THEN sym
    ELSE IF sym[1] = "=" /\ sym[2] = "X" THEN RemoveEqX(SubSeq(sym, 3, Len(sym)))
    ELSE <<sym[1]>> \o RemoveEqX(Tail(sym))

\* trading_engine.py lines 277-285
FormatPair(sym) ==
    LET bare == RemoveEqX(sym)
    IN IF Len(bare) >= 6
       THEN SubSeq(bare, 1, 3) \o <<"/">> \o SubSeq(bare, 4, 6)
       ELSE bare

RECURSIVE Join(_)
Join(chars) == IF chars = << >> THEN "" ELSE chars[1] \o Join(Tail(chars))

\* The signal the scorer emits for a frame fetched for `symbol`.
EvaluatedSignal(symbol, dir, conf, t) ==
    [id |-> 0, timestamp |-> t,
     pair |-> Join(FormatPair(AttrsSymbol(get_market_data(symbol, "frame")))),
     direction |-> dir, confidence |-> conf]

\* get_simple_signal(): the pairs are tried in order and the first signal of
\* confidence >= 75 is returned; k is that pair's index, 0 when every pair
\* gave no data, no signal or an exception.
get_simple_signal(k, dir, conf, t) ==
    IF k = 0 \/ conf < AppThreshold THEN NoCandidate
    ELSE EvaluatedSignal(Pairs[k], dir, conf, t)

\* The fallback of index.py when the import fails, lines 14-20; its
\* confidence 76.5 is held as whole percent.
FallbackSignal ==
    [id |-> 0, timestamp |-> NoTimestamp, pair |-> "EUR/USD", direction |-> "BUY",
     confidence |-> 76]

\* format_simple_signal uses the pair and the direction.
Presented(sig) == [pair |-> sig.pair, direction |-> sig.direction]
Nothing == [pair |-> NoField, direction |-> NoField]

\* The hard-coded response of index.py lines 130-134.
DemoResponse == [pair |-> "EUR/USD", direction |-> "BUY"]

NoView ==
    [handler |-> "none", pair_index |-> 0, branch |-> "none", symbol |-> NoSymbol, candidate |-> NoCandidate,
     accepted |-> FALSE, box |-> "none", shown |-> Nothing]

\* No handler of the presentation layers has run.
AppIdle ==
    /\ last_signal_check = NoTimestamp
    /\ view = NoView
    /\ rerun = FALSE

NoEntry == [data |-> NoTimestamp, time |-> NoTimestamp]
NoCall == [fn |-> "none"]

\* interval and period as get_simple_signal passes them; the key is
\* f"{symbol}_{interval}_{period}" (trading_engine.py line 21).
CacheKeys == { <<Pairs[1], "1m", "1d">>, <<Pairs[2], "1m", "1d">> }

\* A new TradingEngine, and no function under test.
EngineIdle ==
    /\ cache = [k \in CacheKeys |-> NoEntry]
    /\ served = [kind |-> "none"]
    /\ fncall = NoCall
    /\ fnret = NoCall
    /\ peer = [signals |-> << >>, container |-> "none"]

----------------------------------------------------------------------------
(* Spec: one store, one producer, any records, any history file *)

T0 == days(10)

Entry(id, t) == ToJson(Signal(id, t))

\* n valid entries, newest first, the newest two hours old at T0.
OldEntries(n) == [i \in 1..n |-> Entry(i, T0 - hours(2) - i)]

\* The history files a store may be constructed from.
InitFiles ==
    { NoFile, Garbage, EmptyObject, Scalar,
      JsonList(<< Entry(1, T0 - 1), [Entry(2, T0 - 2) EXCEPT !.timestamp = << >>] >>),
      JsonList(<< Entry(1, T0 - 1), [Entry(2, T0 - 2) EXCEPT !.timestamp = << NoTimestamp >>] >>),
      JsonList(<< Entry(1, T0 - 1), Entry(2, T0 - 2), Entry(3, T0 - hours(1)),
                  Entry(4, T0 - days(DefaultRetentionDays)) >>),
      JsonList(OldEntries(MaxHistory - 1)),
      JsonList(OldEntries(MaxHistory)),
      JsonList(OldEntries(MaxHistory + 1)) }

Init ==
    /\ now = T0
    /\ file \in InitFiles
    /\ signals = _load_signals(file).items
    /\ container = _load_signals(file).container
    /\ last = Called("construct", ~_load_signals(file).raised, NoCandidate)
    /\ steps = 0
    /\ results = << >>
    /\ ThreadsIdle
    /\ ScoreIdle
    /\ AppIdle
    /\ EngineIdle

Jumps == {1, hours(1), days(DefaultRetentionDays)}

AddSignal ==
    \E sig \in Candidates(now) :
        Budget /\ add_signal(sig) /\ UNCHANGED <<now, results, threadVars>> /\ UNCHANGED <<scoreVars, appVars, engineVars, fnVars, peer>>

Cleanup ==
    \E d \in {0, DefaultRetentionDays} :
        Budget /\ cleanup_old_signals(d) /\ UNCHANGED <<now, results, threadVars>> /\ UNCHANGED <<scoreVars, appVars, engineVars, fnVars, peer>>

Restart == Budget /\ Construct /\ UNCHANGED <<now, results, threadVars>>
    /\ UNCHANGED <<scoreVars, appVars, engineVars, fnVars, peer>>

Tick ==
    \E d \in Jumps :
        /\ Budget
        /\ now' = now + d
        /\ last' = Called("tick", TRUE, NoCandidate)
        /\ UNCHANGED <<signals, container, file, results, threadVars>>
        /\ UNCHANGED <<scoreVars, appVars, engineVars, fnVars, peer>>

Next == AddSignal \/ Cleanup \/ Restart \/ Tick

vars == <<storeVars, threadVars, scoreVars, appVars, engineVars, fnVars, peer>>

Spec == Init /\ [][Next]_vars

----------------------------------------------------------------------------
(* SpecRate: one producer records well-formed signals, created at the time *)
(* of recording, on a store that starts empty                              *)

StoreEmpty ==
    /\ now = T0
    /\ file = NoFile
    /\ signals = << >>
    /\ container = "list"
    /\ last = Called("construct", TRUE, NoCandidate)
    /\ steps = 0
    /\ results = << >>
    /\ ThreadsIdle

InitRate == StoreEmpty /\ ScoreIdle /\ AppIdle /\ EngineIdle

Record ==
    /\ Len(results) < MaxCalls
    /\ add_signal(Signal(Len(results) + 1, now))
    /\ results' = Append(results, [at |-> now, ret |-> last'.ret])
    /\ UNCHANGED <<now, steps, threadVars>>
    /\ UNCHANGED <<scoreVars, appVars, engineVars, fnVars, peer>>

Wait ==
    \E d \in {1, hours(1)} :
        /\ Budget
        /\ now' = now + d
        /\ last' = Called("tick", TRUE, NoCandidate)
        /\ UNCHANGED <<signals, container, file, results, threadVars>>
        /\ UNCHANGED <<scoreVars, appVars, engineVars, fnVars, peer>>

NextRate == Record \/ Wait

SpecRate == InitRate /\ [][NextRate]_vars

----------------------------------------------------------------------------
(* SpecFill: one producer records FillCount well-formed signals as fast as *)
(* the rate limit lets it, waiting an hour and a tick after each rejection *)

Recorded == IF signals = << >> THEN 0 ELSE signals[1].id

FillRecord ==
    /\ Recorded < FillCount
    /\ add_signal(Signal(Recorded + 1, now))
    /\ UNCHANGED <<now, steps, results, threadVars>>
    /\ UNCHANGED <<scoreVars, appVars, engineVars, fnVars, peer>>

FillWait ==
    /\ last.op = "add" /\ ~last.ret
    /\ now' = now + hours(1) + 1
    /\ last' = Called("tick", TRUE, NoCandidate)
    /\ UNCHANGED <<signals, container, file, steps, results, threadVars>>
    /\ UNCHANGED <<scoreVars, appVars, engineVars, fnVars, peer>>

NextFill == FillRecord \/ FillWait

SpecFill == InitRate /\ [][NextFill]_vars

----------------------------------------------------------------------------
(* SpecConc: several threads call add_signal on one store.  The code takes *)
(* no lock, so the statements of add_signal interleave: the rate check,    *)
(* the insert, the evaluation of self.signals[:100], its assignment, the   *)
(* copy made by _save_signals and the write of the file (taken as one      *)
(* step).  The signals are well-formed and created at the call.            *)

\* add_signal is entered and _can_add_signal evaluated (lines 45-47).
Call(p) ==
    /\ pc[p] = "idle"
    /\ Len(results) < MaxConcCalls
    /\ IF _can_add_signal(signals, now)
       THEN /\ pc' = [pc EXCEPT ![p] = "insert"]
            /\ cand' = [cand EXCEPT ![p] = Signal(Len(results) + 1, now)]
            /\ results' = Append(results, [at |-> now, ret |-> TRUE])
            /\ last' = last
       ELSE /\ results' = Append(results, [at |-> now, ret |-> FALSE])
            /\ last' = Called("add", FALSE, Signal(Len(results) + 1, now))
            /\ UNCHANGED <<pc, cand>>
    /\ UNCHANGED <<now, signals, container, file, steps, sliced, data>>
    /\ UNCHANGED <<scoreVars, appVars, engineVars, fnVars, peer>>

\* self.signals.insert(0, signal) (line 50)
Insert(p) ==
    /\ pc[p] = "insert"
    /\ signals' = insert0(signals, cand[p])
    /\ pc' = [pc EXCEPT ![p] = "slice"]
    /\ UNCHANGED <<now, container, file, last, steps, results, cand, sliced, data>>
    /\ UNCHANGED <<scoreVars, appVars, engineVars, fnVars, peer>>

\* the right-hand side of line 53
Slice(p) ==
    /\ pc[p] = "slice"
    /\ sliced' = [sliced EXCEPT ![p] = KeepFirst(signals)]
    /\ pc' = [pc EXCEPT ![p] = "assign"]
    /\ UNCHANGED <<storeVars, cand, data>>
    /\ UNCHANGED <<scoreVars, appVars, engineVars, fnVars, peer>>

\* the assignment of line 53
Assign(p) ==
    /\ pc[p] = "assign"
    /\ signals' = sliced[p]
    /\ pc' = [pc EXCEPT ![p] = "copy"]
    /\ UNCHANGED <<now, container, file, last, steps, results, cand, sliced, data>>
    /\ UNCHANGED <<scoreVars, appVars, engineVars, fnVars, peer>>

\* _save_signals, lines 30-34
Copy(p) ==
    /\ pc[p] = "copy"
    /\ data' = [data EXCEPT ![p] = [i \in 1..Len(signals) |-> ToJson(signals[i])]]
    /\ pc' = [pc EXCEPT ![p] = "write"]
    /\ UNCHANGED <<storeVars, cand, sliced>>
    /\ UNCHANGED <<scoreVars, appVars, engineVars, fnVars, peer>>

\* _save_signals, lines 36-37
Write(p) ==
    /\ pc[p] = "write"
    /\ file' = JsonList(data[p])
    /\ pc' = [pc EXCEPT ![p] = "return"]
    /\ UNCHANGED <<now, signals, container, last, steps, results, cand, sliced, data>>
    /\ UNCHANGED <<scoreVars, appVars, engineVars, fnVars, peer>>

\* lines 58-59
Return(p) ==
    /\ pc[p] = "return"
    /\ last' = Called("add", TRUE, cand[p])
    /\ pc' = [pc EXCEPT ![p] = "idle"]
    /\ UNCHANGED <<now, signals, container, file, steps, results, cand, sliced, data>>
    /\ UNCHANGED <<scoreVars, appVars, engineVars, fnVars, peer>>

ConcTick ==
    /\ now < T0 + hours(MaxConcHours)
    /\ now' = now + hours(1)
    /\ UNCHANGED <<signals, container, file, last, steps, results, threadVars>>
    /\ UNCHANGED <<scoreVars, appVars, engineVars, fnVars, peer>>

NextConc ==
    \/ \E p \in Producers :
          Call(p) \/ Insert(p) \/ Slice(p) \/ Assign(p) \/ Copy(p) \/ Write(p) \/ Return(p)
    \/ ConcTick

SpecConc == InitRate /\ [][NextConc]_vars

----------------------------------------------------------------------------
(* SpecScore: one call of generate_binary_trading_signal(data, indicators, *)
(* confidence_threshold, timeframe), rule by rule.  The arguments are      *)
(* fixed at the call; the indicator values a rule reads, and what the      *)
(* helpers it calls see (clock, volumes, news, random draw), are chosen    *)
(* where the code reads them.  get_market_session is called at line 98     *)
(* and its result first read in the acceptance test, where it is chosen.   *)

\* confidence_threshold: none, the application's (75) and the default (85)
Thresholds == {0, 75, 85}
Timeframes == {"M1", "1m", "5m"}
BarCounts == {0, 1, 49, 50}

\* The arguments of a call.  data is None or a frame of `bars` rows that may
\* lack the Close or the Volume column; indicators is {} or a dict of series.
ScoreArgs ==
    { [data |-> "None", bars |-> 0, hasClose |-> TRUE, hasVolume |-> TRUE,
       indicators |-> ind, threshold |-> th, timeframe |-> tf] :
         ind \in {"empty", "given"}, th \in Thresholds, tf \in Timeframes }
    \cup
    { [data |-> "frame", bars |-> n, hasClose |-> c, hasVolume |-> v,
       indicators |-> ind, threshold |-> th, timeframe |-> tf] :
         n \in BarCounts, c \in BOOLEAN, v \in BOOLEAN,
         ind \in {"empty", "given"}, th \in Thresholds, tf \in Timeframes }

\* (latest_close, previous_close): rising and falling
ClosePairs == { [close |-> 2, prev |-> 1], [close |-> 1, prev |-> 2] }

RsiSeries == {EmptySeries, 15, 20, 25, 30, 50, 70, 75, 80, 85}
UpperBands == {EmptySeries, 1, 3}
LowerBands == {EmptySeries, 0, 2}
BandPositions == {EmptySeries, 4, 5, 50, 95, 96}
MaValues == {EmptySeries, 0, 1, 3}
PrevMaValues == {EmptySeries, 1, 2}
MacdValues == {EmptySeries, 0, 1}
PriceChanges == {0 - 21, 0 - 11, 0, 20, 21}
VolumeRatios == {12, 13}
RecentVolumes == {13, 14, 19}
Sentiments == {0 - 50, 0, 30, 50}
Velocities == {10, 11}
\* One UTC hour for each combination of open sessions
Hours == {7, 8, 12, 16, 17, 22}

\* The extreme draws of np.random.randint over a range.
Extremes(S) == { x \in S : \A y \in S : x <= y } \cup { x \in S : \A y \in S : x >= y }

\* A guard that lets a frame one bar short of the minimum through.
GuardOffByOne(a) ==
    \/ a.data = "None"
    \/ a.bars = 0
    \/ a.indicators = "empty"
    \/ a.bars < MinBars - 1

\* Line 94
GuardRejects(a) ==
    \/ a.data = "None"
    \/ a.bars = 0
    \/ a.indicators = "empty"
    \/ a.bars < MinBars

Done(r) ==
    /\ result' = r
    /\ spc' = "done"

\* Lines 94-117: the guard and the latest values.
ScoreCall ==
    /\ spc = "call"
    /\ IF GuardRejects(args)
       THEN Done(NoSignal) /\ price' = price
       ELSE IF ~args.hasClose
       THEN Done(ExceptClause("KeyError")) /\ price' = price
       ELSE /\ \E c \in ClosePairs : price' = c
            /\ spc' = "rsi"
            /\ result' = result
    /\ UNCHANGED <<args, acc, absorbed, fired, storeVars, threadVars, appVars, engineVars, fnVars, peer>>

ScoreRsi ==
    /\ spc = "rsi"
    /\ \E rsi \in RsiSeries :
          /\ acc' = RsiRule(acc, LatestOr(rsi, 50))
          /\ fired' = RsiTrigger(LatestOr(rsi, 50))
    /\ spc' = "bollinger"
    /\ UNCHANGED <<args, price, absorbed, result, storeVars, threadVars, appVars, engineVars, fnVars, peer>>

ScoreBollinger ==
    /\ spc = "bollinger"
    /\ \E upper \in UpperBands, lower \in LowerBands, pos \in BandPositions :
          /\ acc' = BollingerRule(acc, price.close, price.prev,
                                  LatestOr(upper, price.close),
                                  LatestOr(lower, price.close),
                                  LatestOr(pos, 50))
          /\ fired' = BollingerTrigger(price.close, price.prev,
                                       LatestOr(upper, price.close),
                                       LatestOr(lower, price.close),
                                       LatestOr(pos, 50))
    /\ spc' = "ma"
    /\ UNCHANGED <<args, price, absorbed, result, storeVars, threadVars, appVars, engineVars, fnVars, peer>>

ScoreMa ==
    /\ spc = "ma"
    /\ \E s \in MaValues, l \in MaValues, ps \in PrevMaValues, pl \in PrevMaValues :
          LET ma_short == LatestOr(s, price.close)
              ma_long == LatestOr(l, price.close)
          IN /\ acc' = MaRule(acc, price.close, price.prev, ma_short, ma_long,
                              LatestOr(ps, ma_short), LatestOr(pl, ma_long))
             /\ fired' = MaTrigger(price.close, price.prev, ma_short, ma_long,
                                   LatestOr(ps, ma_short), LatestOr(pl, ma_long))
    /\ spc' = "macd"
    /\ UNCHANGED <<args, price, absorbed, result, storeVars, threadVars, appVars, engineVars, fnVars, peer>>

ScoreMacd ==
    /\ spc = "macd"
    /\ \E m \in MacdValues, s \in MacdValues, pm \in MacdValues, ps \in MacdValues :
          LET macd == LatestOr(m, 0)
              macd_signal == LatestOr(s, 0)
          IN /\ acc' = MacdRule(acc, macd, macd_signal,
                                LatestOr(pm, macd), LatestOr(ps, macd_signal))
             /\ fired' = MacdTrigger(macd, macd_signal,
                                     LatestOr(pm, macd), LatestOr(ps, macd_signal))
    /\ spc' = "momentum"
    /\ UNCHANGED <<args, price, absorbed, result, storeVars, threadVars, appVars, engineVars, fnVars, peer>>

ScoreMomentum ==
    /\ spc = "momentum"
    /\ \E change \in PriceChanges, ratio \in VolumeRatios, fails \in BOOLEAN :
          /\ acc' = MomentumRule(acc,
                       analyze_short_term_momentum(args.bars, change,
                           IF args.hasVolume THEN ratio ELSE 10, fails))
          /\ fired' = MomentumTrigger(
                       analyze_short_term_momentum(args.bars, change,
                           IF args.hasVolume THEN ratio ELSE 10, fails))
          /\ absorbed' = IF fails THEN absorbed \cup {"momentum"} ELSE absorbed
    /\ spc' = "volume"
    /\ UNCHANGED <<args, price, result, storeVars, threadVars, appVars, engineVars, fnVars, peer>>

ScoreVolume ==
    /\ spc = "volume"
    /\ IF args.bars > 20 /\ ~args.hasVolume
       THEN Done(ExceptClause("KeyError")) /\ acc' = acc /\ fired' = NoTrigger
       ELSE /\ \E recent \in RecentVolumes :
                  /\ acc' = IF args.bars > 20 THEN VolumeRule(acc, recent, 10) ELSE acc
                  /\ fired' = IF args.bars > 20 THEN VolumeTrigger(recent, 10) ELSE NoTrigger
            /\ spc' = "news"
            /\ result' = result
    /\ UNCHANGED <<args, price, absorbed, storeVars, threadVars, appVars, engineVars, fnVars, peer>>

ScoreNews ==
    /\ spc = "news"
    /\ \E sentiment \in Sentiments, fails \in BOOLEAN :
          /\ acc' = NewsRule(acc, sentiment, fails)
          /\ fired' = NewsTrigger(sentiment, fails)
          /\ absorbed' = IF fails THEN absorbed \cup {"news"} ELSE absorbed
    /\ spc' = "accept"
    /\ UNCHANGED <<args, price, result, storeVars, threadVars, appVars, engineVars, fnVars, peer>>

\* Lines 267-321
ScoreAccept ==
    /\ spc = "accept"
    /\ \E hour \in Hours, sfails \in BOOLEAN :
          LET session == get_market_session(hour, sfails)
              seen == IF sfails THEN absorbed \cup {"session"} ELSE absorbed
          IN IF Qualifies(acc, args.threshold, args.timeframe)
             THEN \E velocity \in Velocities, tfails \in BOOLEAN :
                    \E delay \in Extremes(_calculate_optimal_entry_timing(velocity, tfails)) :
                       /\ Done(EmittedSignal(acc, args.timeframe, session.volatility, delay))
                       /\ absorbed' = IF tfails THEN seen \cup {"timing"} ELSE seen
             ELSE /\ Done(NoSignal)
                  /\ absorbed' = seen
    /\ fired' = NoTrigger
    /\ UNCHANGED <<args, price, acc, storeVars, threadVars, appVars, engineVars, fnVars, peer>>

NextScore ==
    \/ ScoreCall \/ ScoreRsi \/ ScoreBollinger \/ ScoreMa \/ ScoreMacd
    \/ ScoreMomentum \/ ScoreVolume \/ ScoreNews \/ ScoreAccept

InitScore ==
    /\ StoreEmpty
    /\ AppIdle
    /\ EngineIdle
    /\ spc = "call"
    /\ args \in ScoreArgs
    /\ price = [close |-> 0, prev |-> 0]
    /\ acc = acc0
    /\ absorbed = {}
    /\ fired = NoTrigger
    /\ result = Pending

SpecScore == InitScore /\ [][NextScore]_vars

----------------------------------------------------------------------------
(* SpecApp: one browser session of the Streamlit page. *)

MaxAppSteps == 8

AppBudget == steps < MaxAppSteps /\ steps' = steps + 1

Directions == {"BUY", "SELL"}
Confidences == {AppThreshold, 100}

\* main(), lines 103-151: at least 30 seconds since the last check.
Poll ==
    /\ SecondsOf(now - last_signal_check) >= PollSeconds
    /\ AppBudget
    /\ last_signal_check' = now
    /\ rerun' = TRUE
    /\ \E k \in 0..Len(Pairs), dir \in Directions, conf \in Confidences :
          LET signal == get_simple_signal(k, dir, conf, now)
          IN IF signal # NoCandidate
             THEN /\ add_signal(signal)
                  /\ view' = [handler |-> "page", pair_index |-> 0, branch |-> "poll", symbol |-> Pairs[k],
                              candidate |-> signal, accepted |-> last'.ret,
                              box |-> "signal", shown |-> Presented(signal)]
                  /\ now' = now + seconds(SleepAfterSignal)
             ELSE /\ UNCHANGED <<signals, container, file, last>>
                  /\ view' = [handler |-> "page", pair_index |-> 0, branch |-> "poll", symbol |-> NoSymbol,
                              candidate |-> NoCandidate, accepted |-> FALSE,
                              box |-> "waiting", shown |-> Nothing]
                  /\ now' = now + seconds(SleepAfterScan)

\* main(), lines 153-181: the most recent stored signal, if under 2 minutes.
ShowRecent ==
    /\ SecondsOf(now - last_signal_check) < PollSeconds
    /\ LET recent_signals == Take(signals, 1)
       IN view' = IF /\ recent_signals # << >>
                     /\ SecondsOf(now - recent_signals[1].timestamp) < ShowSeconds
                  THEN [handler |-> "page", pair_index |-> 0, branch |-> "idle", symbol |-> NoSymbol,
                        candidate |-> NoCandidate, accepted |-> FALSE,
                        box |-> "signal", shown |-> Presented(recent_signals[1])]
                  ELSE [handler |-> "page", pair_index |-> 0, branch |-> "idle", symbol |-> NoSymbol,
                        candidate |-> NoCandidate, accepted |-> FALSE,
                        box |-> "waiting", shown |-> Nothing]
    /\ rerun' = FALSE
    /\ UNCHANGED <<now, signals, container, file, last, steps, last_signal_check>>

\* One run of the page's script.
AppRun ==
    /\ Poll \/ ShowRecent
    /\ UNCHANGED <<results, threadVars, scoreVars, engineVars, fnVars, peer>>

AppJumps == {seconds(PollSeconds)}

\* Time passes between two runs of the script.
AppTick ==
    /\ AppBudget
    /\ \E d \in AppJumps : now' = now + d
    /\ UNCHANGED <<signals, container, file, last, results, threadVars, scoreVars, appVars,
                   engineVars, fnVars, peer>>

NextApp == AppRun \/ AppTick

\* The session state is initialised when the page is first opened.
InitApp ==
    /\ StoreEmpty
    /\ ScoreIdle
    /\ last_signal_check = now
    /\ view = NoView
    /\ rerun = TRUE
    /\ EngineIdle

SpecApp == InitApp /\ [][NextApp]_vars

----------------------------------------------------------------------------
(* SpecApi: requests to GET /api/signal (index.py lines 120-148).  The     *)
(* loop of get_simple_signal is taken pair by pair.                        *)

MaxRequests == 2

Fetches == {"frame", "empty", "error"}

\* generate_binary_trading_signal at threshold 75 for the frame of one pair:
\* None, an exception, or a signal.
PairOutcomes ==
    {[kind |-> "None", direction |-> NoField, confidence |-> NoNumber],
     [kind |-> "raise", direction |-> NoField, confidence |-> NoNumber]}
    \cup { [kind |-> "signal", direction |-> d, confidence |-> c] :
             d \in Directions, c \in Confidences }

\* The request arrives; with the import failed the fallback answers at once.
ApiRequest ==
    /\ view.box \in {"none", "response"}
    /\ steps < MaxRequests
    /\ steps' = steps + 1
    /\ results' = results
    /\ \E imported \in BOOLEAN :
          view' = IF imported
                  THEN [handler |-> "api", pair_index |-> 1, branch |-> "imported",
                        symbol |-> NoSymbol, candidate |-> NoCandidate, accepted |-> FALSE,
                        box |-> "evaluating", shown |-> Nothing]
                  ELSE [handler |-> "api", pair_index |-> 0, branch |-> "fallback",
                        symbol |-> NoSymbol, candidate |-> FallbackSignal, accepted |-> FALSE,
                        box |-> "evaluated", shown |-> Nothing]
    /\ UNCHANGED <<now, signals, container, file, last, last_signal_check,
                   rerun, threadVars, scoreVars, engineVars, fnVars, peer>>

\* One pass of the loop of get_simple_signal, simple_binary_app.py lines
\* 28-47: no data, no signal and an exception go on to the next pair.
ApiEvaluate ==
    /\ view.box = "evaluating"
    /\ IF view.pair_index > Len(Pairs)
       THEN view' = [view EXCEPT !.box = "evaluated"]
       ELSE \E fetched \in Fetches, outcome \in PairOutcomes :
              LET symbol == Pairs[view.pair_index]
                  frame == get_market_data(symbol, fetched)
              IN IF /\ frame.kind = "frame"
                    /\ outcome.kind = "signal"
                    /\ outcome.confidence >= AppThreshold
                 THEN view' = [view EXCEPT
                                 !.symbol = symbol,
                                 !.candidate = [id |-> 0, timestamp |-> now,
                                                pair |-> Join(FormatPair(AttrsSymbol(frame))),
                                                direction |-> outcome.direction,
                                                confidence |-> outcome.confidence],
                                 !.box = "evaluated"]
                 ELSE view' = [view EXCEPT !.pair_index = @ + 1]
    /\ UNCHANGED <<storeVars, last_signal_check, rerun, threadVars, scoreVars, engineVars, fnVars, peer>>

\* index.py lines 124-141: the signal, or the hard-coded response.
ApiRespond ==
    /\ view.box = "evaluated"
    /\ view' = [view EXCEPT !.box = "response",
                            !.shown = IF view.candidate # NoCandidate
                                      THEN Presented(view.candidate)
                                      ELSE DemoResponse]
    /\ UNCHANGED <<storeVars, last_signal_check, rerun, threadVars, scoreVars, engineVars, fnVars, peer>>

\* Time passes between two requests.
ApiTick ==
    /\ view.box = "response"
    /\ steps < MaxRequests
    /\ now' = now + seconds(PollSeconds)
    /\ view' = [view EXCEPT !.box = "none"]
    /\ UNCHANGED <<signals, container, file, last, steps, results, last_signal_check,
                   rerun, threadVars, scoreVars, engineVars, fnVars, peer>>

NextApi == ApiRequest \/ ApiEvaluate \/ ApiRespond \/ ApiTick

InitApi ==
    /\ StoreEmpty
    /\ ScoreIdle
    /\ AppIdle
    /\ EngineIdle

SpecApi == InitApi /\ [][NextApi]_vars

----------------------------------------------------------------------------
(* SpecCache: calls of TradingEngine.get_market_data on one engine. *)

MaxCacheSteps == 5
cache_timeout == 60

CacheBudget == steps < MaxCacheSteps /\ steps' = steps + 1

\* trading_engine.py lines 17-52.  A frame is known by the time it was
\* fetched.
GetMarketData ==
    /\ CacheBudget
    /\ \E k \in CacheKeys, fetched \in Fetches :
          IF /\ cache[k] # NoEntry
             /\ SecondsOf(now - cache[k].time) < cache_timeout
          THEN /\ served' = [kind |-> "call", key |-> k, hit |-> TRUE,
                             age |-> now - cache[k].time, data |-> cache[k].data]
               /\ cache' = cache
          ELSE /\ served' = [kind |-> "call", key |-> k, hit |-> FALSE,
                             age |-> IF cache[k] = NoEntry THEN NoTimestamp
                                     ELSE now - cache[k].time,
                             data |-> IF get_market_data(k[1], fetched).kind = "frame"
                                      THEN now ELSE NoTimestamp]
               /\ cache' = IF get_market_data(k[1], fetched).kind = "frame"
                           THEN [cache EXCEPT ![k] = [data |-> now, time |-> now]]
                           ELSE cache
    /\ UNCHANGED <<now, signals, container, file, last, results, threadVars, scoreVars,
                   appVars, fnVars, peer>>

CacheJumps == {1, seconds(cache_timeout) - 1, seconds(cache_timeout), days(1)}

CacheTick ==
    /\ CacheBudget
    /\ \E d \in CacheJumps : now' = now + d
    /\ UNCHANGED <<signals, container, file, last, results, threadVars, scoreVars,
                   appVars, engineVars, fnVars, peer>>

NextCache == GetMarketData \/ CacheTick

SpecCache == InitRate /\ [][NextCache]_vars

----------------------------------------------------------------------------
(* SpecFn: the engine's helper functions, each applied to drawn arguments. *)

\* datetime.utcnow().hour
UtcHours == 0..(HoursPerDay - 1)

CallSession ==
    /\ \E hour \in UtcHours, fails \in BOOLEAN :
          /\ fncall' = [fn |-> "get_market_session", hour |-> hour, fails |-> fails]
          /\ fnret' = get_market_session(hour, fails)
    /\ UNCHANGED <<storeVars, threadVars, scoreVars, appVars, engineVars, peer>>

\* technical_indicators.py.  An argument is a series (a length, standing for
\* its index, and values that are numbers or text) or an object that is no
\* series; a result is a series, a mapping of series, or an exception that
\* leaves the function.
MaxIndex == 2
NotSeries == {[kind |-> "None"], [kind |-> "number"]}
SeriesInputs ==
    [kind : {"series"}, index : 0..MaxIndex, values : {"numbers", "text"}]
IndicatorInputs == SeriesInputs \cup NotSeries
Periods == {0 - 1, 14}
Raised == [kind |-> "raised"]

\* pd.Series(index=data.index, dtype=float), the expression of every except
\* clause: reading data.index raises when data is no series.
UndefinedLike(prices) ==
    IF prices.kind = "series"
    THEN [kind |-> "series", index |-> prices.index, values |-> "undefined"]
    ELSE Raised

\* The body of the try: rolling/ewm/diff exist on a series only, accept no
\* negative window or span, and their mean accepts numbers only.
Computed(prices, period) ==
    IF prices.kind = "series" /\ prices.values = "numbers" /\ period >= 1
    THEN [kind |-> "series", index |-> prices.index, values |-> "computed"]
    ELSE Raised

\* Lines 8-14, 16-22, 24-37
calculate_sma(prices, period) ==
    IF Computed(prices, period) # Raised THEN Computed(prices, period)
    ELSE UndefinedLike(prices)

calculate_ema(prices, period) ==
    IF Computed(prices, period) # Raised THEN Computed(prices, period)
    ELSE UndefinedLike(prices)

calculate_rsi(prices, period) ==
    IF Computed(prices, period) # Raised THEN Computed(prices, period)
    ELSE UndefinedLike(prices)

MappingOf(keys, series) ==
    IF series = Raised THEN Raised
    ELSE [kind |-> "mapping", keys |-> keys, each |-> series]

\* Lines 39-58, with the default spans 12, 26, 9
calculate_macd(prices) ==
    IF Computed(prices, 12) # Raised
    THEN MappingOf({"MACD", "MACD_Signal", "MACD_Hist"}, Computed(prices, 12))
    ELSE MappingOf({"MACD", "MACD_Signal", "MACD_Hist"}, UndefinedLike(prices))

\* Lines 60-82: the call of calculate_sma is inside the try
calculate_bollinger_bands(prices, period) ==
    IF calculate_sma(prices, period) # Raised /\ Computed(prices, period) # Raised
    THEN MappingOf({"BB_Upper", "BB_Middle", "BB_Lower"}, Computed(prices, period))
    ELSE MappingOf({"BB_Upper", "BB_Middle", "BB_Lower"}, UndefinedLike(prices))

IndicatorFns ==
    {"calculate_sma", "calculate_ema", "calculate_rsi", "calculate_macd",
     "calculate_bollinger_bands"}

ApplyIndicator(fn, prices, period) ==
    IF fn = "calculate_sma" THEN calculate_sma(prices, period)
    ELSE IF fn = "calculate_ema" THEN calculate_ema(prices, period)
    ELSE IF fn = "calculate_rsi" THEN calculate_rsi(prices, period)
    ELSE IF fn = "calculate_macd" THEN calculate_macd(prices)
    ELSE calculate_bollinger_bands(prices, period)

\* trading_engine.py lines 54-89: the frame is None, an empty frame, or a frame
\* whose Close column is the given series; every exception gives {}.
Frames == {[kind |-> "None"], [kind |-> "empty"]} \cup [kind : {"frame"}, close : SeriesInputs]
NoIndicators == [kind |-> "mapping", keys |-> {}]

calculate_indicators(frame) ==
    IF frame.kind \in {"None", "empty"} THEN NoIndicators
    ELSE IF \E fn \in IndicatorFns : ApplyIndicator(fn, frame.close, 14) = Raised
    THEN NoIndicators
    ELSE [kind |-> "mapping",
          keys |-> {"RSI", "MA_Short", "MA_Long", "MACD", "MACD_Signal", "MACD_Hist",
                    "BB_Upper", "BB_Middle", "BB_Lower", "Volume_SMA", "Price_Change",
                    "BB_Position"},
          each |-> calculate_rsi(frame.close, 14)]

CallIndicator ==
    /\ \E fn \in IndicatorFns, d \in IndicatorInputs, period \in Periods :
          /\ fncall' = [fn |-> fn, data |-> d, period |-> period]
          /\ fnret' = ApplyIndicator(fn, d, period)
    /\ UNCHANGED <<storeVars, threadVars, scoreVars, appVars, engineVars, peer>>

CallIndicators ==
    /\ \E d \in Frames :
          /\ fncall' = [fn |-> "calculate_indicators", data |-> d]
          /\ fnret' = calculate_indicators(d)
    /\ UNCHANGED <<storeVars, threadVars, scoreVars, appVars, engineVars, peer>>

\* analyze_short_term_momentum (lines 400-431) and the scorer's use of its
\* result (lines 226-237) on accumulators with each direction.
MomentumAccs ==
    {acc0,
     Vote(acc0, 25, "BUY", "RSI oversold reversal", "Reversal setup"),
     Vote(acc0, 25, "SELL", "RSI overbought reversal", "Reversal setup")}

CallMomentum ==
    /\ \E bars \in {9, 10}, change \in {0 - 21, 0 - 20, 0 - 11, 0 - 10, 0, 10, 11, 20, 21},
          ratio \in {12, 13}, fails \in BOOLEAN, a \in MomentumAccs :
          /\ fncall' = [fn |-> "analyze_short_term_momentum", bars |-> bars,
                        change |-> change, ratio |-> ratio, fails |-> fails, acc |-> a]
          /\ fnret' = [momentum |-> analyze_short_term_momentum(bars, change, ratio, fails),
                       acc |-> MomentumRule(a, analyze_short_term_momentum(bars, change,
                                                                           ratio, fails))]
    /\ UNCHANGED <<storeVars, threadVars, scoreVars, appVars, engineVars, peer>>

\* calculate_rsi on numbers (lines 24-37).  Prices are integers and an RSI
\* value is in hundredths; NaN is Undefined.  Series division by 0 gives inf
\* (or NaN for 0/0) and raises nothing.
MaxPrices == 3
Undefined == 0 - 1

\* delta = data.diff(); the first delta is NaN, and where(cond, 0) puts 0
\* wherever the comparison is false, NaN included.
Delta(prices, i) == IF i = 1 THEN 0 ELSE prices[i] - prices[i - 1]

RECURSIVE RollingSum(_, _, _, _)
\* rolling(window=period) at i: the sum over the window (the mean is the sum
\* over period, and gain / loss is the ratio of the sums).
RollingSum(prices, i, n, up) ==
    IF n = 0 THEN 0
    ELSE (IF up THEN (IF Delta(prices, i) > 0 THEN Delta(prices, i) ELSE 0)
          ELSE (IF Delta(prices, i) < 0 THEN 0 - Delta(prices, i) ELSE 0))
         + RollingSum(prices, i - 1, n - 1, up)

\* A division that faults where the loss is 0.
RsiFaultsOnZeroLoss(gain, loss) ==
    IF loss = 0 THEN Undefined
    ELSE 10000 - (10000 * loss) \div (gain + loss)

\* rs = gain / loss; rsi = 100 - (100 / (1 + rs))
RsiOf(gain, loss) ==
    IF gain = 0 /\ loss = 0 THEN Undefined
    ELSE IF loss = 0 THEN 10000
    ELSE 10000 - (10000 * loss) \div (gain + loss)

RsiValues(prices, period) ==
    [i \in 1..Len(prices) |->
        IF i < period THEN Undefined
        ELSE RsiOf(RollingSum(prices, i, period, TRUE),
                   RollingSum(prices, i, period, FALSE))]

CallRsi ==
    /\ \E n \in 0..MaxPrices, period \in {1, 2} :
          \E prices \in [1..n -> 1..3] :
             /\ fncall' = [fn |-> "rsi", prices |-> prices, period |-> period]
             /\ fnret' = RsiValues(prices, period)
    /\ UNCHANGED <<storeVars, threadVars, scoreVars, appVars, engineVars, peer>>

NextFn == CallSession \/ CallIndicator \/ CallIndicators \/ CallMomentum \/ CallRsi

SpecFn == InitRate /\ [][NextFn]_vars

----------------------------------------------------------------------------
(* SpecLoop: the page left open.  The script runs when a run is pending: the
   first run of the session, a run the script asked for with st.rerun(), or
   a run started from outside the script (the browser reconnects). *)

MaxLoopSteps == 6

LoopRun == rerun /\ AppRun

\* A run the script did not ask for.
Reconnect ==
    /\ ~rerun
    /\ steps < MaxLoopSteps
    /\ steps' = steps + 1
    /\ rerun' = TRUE
    /\ UNCHANGED <<now, signals, container, file, last, results, last_signal_check, view,
                   threadVars, scoreVars, engineVars, fnVars, peer>>

LoopJumps == {seconds(1), seconds(PollSeconds), days(1)}

\* Time passes while no run is pending.
LoopTick ==
    /\ ~rerun
    /\ steps < MaxLoopSteps
    /\ steps' = steps + 1
    /\ \E d \in LoopJumps : now' = now + d
    /\ UNCHANGED <<signals, container, file, last, results, threadVars, scoreVars, appVars,
                   engineVars, fnVars, peer>>

NextLoop == LoopRun \/ Reconnect \/ LoopTick

SpecLoop == InitApp /\ [][NextLoop]_vars

----------------------------------------------------------------------------
(* SpecShared: two SignalManager instances, one per browser session, on the
   same history file.  The first exists from the start; the second is
   constructed when its session opens. *)

MaxSharedSteps == 5

SharedBudget == steps < MaxSharedSteps /\ steps' = steps + 1

\* signal_manager.py lines 6-9, in the second session
PeerConstruct ==
    /\ peer.container = "none"
    /\ SharedBudget
    /\ peer' = [signals |-> _load_signals(file).items,
                container |-> _load_signals(file).container]
    /\ UNCHANGED <<now, signals, container, file, last, results, threadVars, scoreVars,
                   appVars, engineVars, fnVars>>

\* add_signal in the first session; results keeps what was accepted.
SharedAdd ==
    /\ SharedBudget
    /\ add_signal(Signal(steps + 1, now))
    /\ results' = IF last'.ret THEN Append(results, last'.arg) ELSE results
    /\ UNCHANGED <<now, threadVars, scoreVars, appVars, engineVars, fnVars, peer>>

\* add_signal (lines 41-63) in the second session, on its own self.signals
PeerAdd ==
    /\ peer.container = "list"
    /\ SharedBudget
    /\ IF ~_can_add_signal(peer.signals, now)
       THEN /\ last' = Called("add", FALSE, Signal(steps + 1, now))
            /\ UNCHANGED <<peer, file, results>>
       ELSE /\ peer' = [peer EXCEPT !.signals = KeepFirst(insert0(@, Signal(steps + 1, now)))]
            /\ file' = _save_signals(peer'.signals, file)
            /\ last' = Called("add", TRUE, Signal(steps + 1, now))
            /\ results' = Append(results, Signal(steps + 1, now))
    /\ UNCHANGED <<now, signals, container, threadVars, scoreVars, appVars, engineVars,
                   fnVars>>

SharedTick ==
    /\ SharedBudget
    /\ \E d \in {1, hours(1)} : now' = now + d
    /\ UNCHANGED <<signals, container, file, last, results, threadVars, scoreVars,
                   appVars, engineVars, fnVars, peer>>

NextShared == PeerConstruct \/ SharedAdd \/ PeerAdd \/ SharedTick

SpecShared == InitRate /\ [][NextShared]_vars

----------------------------------------------------------------------------
(* SpecQuery: the query operations of the store, between adds and clock
   steps, on any history file.  A query gives what it returns and what
   self.signals is after it. *)

\* A query that cuts self.signals down to what it returns.
RecentByTruncation(sigs, cont, count) ==
    IF cont # "list" THEN [ret |-> << >>, signals |-> sigs]
    ELSE [ret |-> Take(sigs, count), signals |-> Take(sigs, count)]

\* Lines 83-89: slicing a dict raises TypeError, caught
get_recent_signals(sigs, cont, count) ==
    IF cont # "list" THEN [ret |-> << >>, signals |-> sigs]
    ELSE [ret |-> Take(sigs, count), signals |-> sigs]

\* Lines 91-101
get_signals_by_pair(sigs, pair, count) ==
    [ret |-> Take(SelectSeq(sigs, LAMBDA x : x.pair = pair), count), signals |-> sigs]

\* Lines 103-114: a record without timestamp raises KeyError, caught
get_signals_today(sigs, t) ==
    IF \E i \in 1..Len(sigs) : sigs[i].timestamp = NoTimestamp
    THEN [ret |-> << >>, signals |-> sigs]
    ELSE [ret |-> SelectSeq(sigs, LAMBDA x : x.timestamp \div days(1) = t \div days(1)),
          signals |-> sigs]

RECURSIVE SumConfidence(_)
\* sum(signal.get('confidence', 0) for signal in self.signals)
SumConfidence(sigs) ==
    IF sigs = << >> THEN 0
    ELSE (IF Head(sigs).confidence = NoNumber THEN 0 ELSE Head(sigs).confidence)
         + SumConfidence(Tail(sigs))

\* Lines 116-165; the rates are kept as numerator and denominator.
get_performance_stats(sigs, t) ==
    [ret |-> IF Len(sigs) = 0
             THEN [total_signals |-> 0, signals_today |-> 0, high_confidence |-> 0,
                   confidence_sum |-> 0, buy_signals |-> 0, sell_signals |-> 0]
             ELSE [total_signals |-> Len(sigs),
                   signals_today |-> Len(get_signals_today(sigs, t).ret),
                   high_confidence |-> Len(SelectSeq(sigs, LAMBDA x : x.confidence >= 80)),
                   confidence_sum |-> SumConfidence(sigs),
                   buy_signals |-> Len(SelectSeq(sigs, LAMBDA x : x.direction = "BUY")),
                   sell_signals |-> Len(SelectSeq(sigs, LAMBDA x : x.direction = "SELL"))],
     signals |-> sigs]

\* Lines 180-224: {} for an empty history and when the hourly distribution
\* meets a record without timestamp.
get_signal_statistics(sigs) ==
    IF sigs = << >> \/ \E i \in 1..Len(sigs) : sigs[i].timestamp = NoTimestamp
    THEN [ret |-> [total_signals |-> 0, pairs |-> {}, hours |-> {}], signals |-> sigs]
    ELSE [ret |-> [total_signals |-> Len(sigs),
                   pairs |-> {sigs[i].pair : i \in 1..Len(sigs)},
                   hours |-> {(sigs[i].timestamp \div hours(1)) % HoursPerDay :
                                i \in 1..Len(sigs)}],
          signals |-> sigs]

\* Lines 226-245, format json: None when a record has no timestamp
export_signals(sigs) ==
    IF \E i \in 1..Len(sigs) : sigs[i].timestamp = NoTimestamp
    THEN [ret |-> "None", signals |-> sigs]
    ELSE [ret |-> [i \in 1..Len(sigs) |-> ToJson(sigs[i])], signals |-> sigs]

QueryOps ==
    {"get_recent_signals", "get_signals_by_pair", "get_signals_today",
     "get_performance_stats", "get_signal_statistics", "export_signals"}

MaxQuerySteps == 4

Query ==
    /\ steps < MaxQuerySteps
    /\ steps' = steps + 1
    /\ \E op \in QueryOps :
          LET r == IF op = "get_recent_signals" THEN get_recent_signals(signals, container, 1)
                   ELSE IF op = "get_signals_by_pair"
                        THEN get_signals_by_pair(signals, "EUR/USD", 20)
                   ELSE IF op = "get_signals_today" THEN get_signals_today(signals, now)
                   ELSE IF op = "get_performance_stats"
                        THEN get_performance_stats(signals, now)
                   ELSE IF op = "get_signal_statistics" THEN get_signal_statistics(signals)
                   ELSE export_signals(signals)
          IN /\ fncall' = [fn |-> op]
             /\ fnret' = r.ret
             /\ signals' = r.signals
             /\ last' = Called(op, TRUE, NoCandidate)
    /\ UNCHANGED <<now, container, file, results, threadVars, scoreVars, appVars,
                   engineVars, peer>>

QueryAdd == steps < MaxQuerySteps /\ AddSignal

QueryTick == steps < MaxQuerySteps /\ Tick

NextQuery == QueryAdd \/ QueryTick \/ Query

SpecQuery == Init /\ [][NextQuery]_vars

----------------------------------------------------------------------------
(* Claims about the store *)

AllStamped(sigs) == \A i \in 1..Len(sigs) : sigs[i].timestamp # NoTimestamp

Min(a, b) == IF a < b THEN a ELSE b

\* C1: add_signal returns False and leaves the history unchanged exactly when
\* at least 3 stored signals have a timestamp within the trailing hour at the
\* time of the call; in every other case the candidate is stored and the call
\* returns True.
C1_RejectsExactlyWhenLimited ==
    [][ last'.op = "add" =>
          IF RecentCount(signals, now) >= max_signals_per_hour
          THEN last'.ret = FALSE /\ signals' = signals
          ELSE last'.ret = TRUE /\ signals' # signals /\ signals'[1] = last'.arg ]_vars

\* C2: on a store that starts empty, the first three calls return True; the
\* fourth returns False when the four signals were created within one hour;
\* and the first call made once the oldest of the three stored signals is more
\* than one hour old returns True.
C2_FourthRejectedThenAccepted ==
    /\ \A k \in 1..Min(3, Len(results)) : results[k].ret
    /\ (Len(results) >= 4 /\ results[4].at - results[1].at < hours(1))
          => ~results[4].ret
    /\ \A k \in 5..Len(results) :
          ( /\ \A j \in 4..(k - 1) : ~results[j].ret
            /\ results[k].at - results[1].at > hours(1) )
          => results[k].ret

C2_Witness ==
    /\ Len(results) >= 5
    /\ results[1].ret /\ results[2].ret /\ results[3].ret
    /\ results[4].at - results[1].at < hours(1) /\ ~results[4].ret
    /\ results[5].at - results[1].at > hours(1) /\ results[5].ret

\* C3: when several producers call add_signal on one store concurrently, the
\* store never ends up (all calls returned) holding more than 3 signals whose
\* timestamps lie within the same trailing hour.
C3_AtomicCheckThenAppend ==
    (\A p \in Producers : pc[p] = "idle") =>
        RecentCount(signals, now) <= max_signals_per_hour

\* C4: an accepted add_signal puts the new signal at index 0, keeps the
\* earlier ones behind it in their order and keeps the first 100 entries only;
\* after 105 accepted signals the history is exactly the 100 most recently
\* recorded ones, newest first.
C4_PrependAndTruncate ==
    /\ [][ (last'.op = "add" /\ last'.ret) =>
             /\ Len(signals') = Min(Len(signals) + 1, MaxHistory)
             /\ signals'[1] = last'.arg
             /\ \A i \in 2..Len(signals') : signals'[i] = signals[i - 1] ]_vars
    /\ [] ( Recorded = FillCount =>
             /\ Len(signals) = MaxHistory
             /\ \A i \in 1..MaxHistory : signals[i].id = FillCount + 1 - i )

C4_Witness ==
    /\ Recorded = FillCount
    /\ last.op = "add" /\ last.ret
    /\ Len(signals) = MaxHistory
    /\ signals[MaxHistory].id = FillCount + 1 - MaxHistory

\* C5: in every reachable state of the store the in-memory history holds at
\* most 100 entries.
C5_AtMost100 == Len(signals) <= MaxHistory

\* C6: saving a history of signals and loading it again gives the same
\* signals in the same order, every field and timestamp equal; and after an
\* operation that saved, the file holds exactly the in-memory history.
C6_RoundTrip ==
    (container = "list" /\ AllStamped(signals)) =>
       /\ _load_signals(_save_signals(signals, file))
             = [raised |-> FALSE, container |-> "list", items |-> signals]
       /\ ((last.op = "add" /\ last.ret) \/ last.op = "cleanup")
             => _load_signals(file).items = signals

C6_Witness ==
    /\ last.op = "add" /\ last.ret
    /\ file.kind = "list"
    /\ Len(signals) >= 2 /\ Len(file.entries) = Len(signals)
    /\ \E i \in 1..Len(file.entries) : Len(file.entries[i].timestamp) = 2
    /\ \E i \in 1..Len(file.entries) : Len(file.entries[i].timestamp) = 1
    /\ _load_signals(file).items = signals

\* The file is missing, is not a JSON list of records, or holds a record
\* whose timestamp is missing or not an ISO date.
Unreadable(f) ==
    \/ f.kind \in {"missing", "garbage", "scalar", "emptyobject"}
    \/ \E i \in 1..Len(f.entries) : ~ValidIso(f.entries[i].timestamp)

C8_AcceptedIsPersisted ==
    (last.op = "add" /\ last.ret) =>
        \E i \in 1..Len(_load_signals(file).items) :
            _load_signals(file).items[i] = last.arg

----------------------------------------------------------------------------
(* Claims about the scorer *)

\* C9: a call with a frame of fewer than 50 bars returns None, whatever the
\* indicators, the threshold and the timeframe; no rule has scored.
C9_ShortSequenceGivesNone ==
    (args.data = "frame" /\ args.bars < MinBars) =>
        /\ spc \in {"call", "done"}
        /\ acc = acc0
        /\ (spc = "done" => result = NoSignal)

C9_Witness ==
    /\ spc = "done"
    /\ args.data = "frame"
    /\ args.bars = MinBars - 1
    /\ args.indicators = "given"
    /\ args.hasClose /\ args.hasVolume
    /\ result = NoSignal

\* A call that got past the guard on a frame lacking a column it reads.
BodyRaised ==
    /\ spc = "done"
    /\ ~GuardRejects(args)
    /\ (~args.hasClose \/ ~args.hasVolume)

Scored == spc = "done" /\ ~GuardRejects(args) /\ args.hasClose /\ args.hasVolume

\* C11: once a rule has set signal_direction no later rule changes it, and
\* a rule whose branch votes against the committed direction adds no weight
\* and no reason.
C11_ConflictingRuleSkipped ==
    [][ acc.direction # NoDirection =>
          /\ acc'.direction = acc.direction
          /\ (TriggerDirection(fired') \notin {NoDirection, acc.direction} => acc' = acc) ]_vars

C13_AcceptanceTest ==
    Scored =>
        /\ result.kind \in {"signal", "None"}
        /\ (result.kind = "signal") <=>
              ( /\ Min(acc.strength, 100) >= args.threshold
                /\ acc.direction \in {"BUY", "SELL"}
                /\ Len(acc.reasons) >= MinConfirmations(args.timeframe) )

\* Confident and directed, but one reason where two are asked for.
C13_Witness ==
    /\ Scored
    /\ acc.strength >= args.threshold
    /\ acc.direction = "SELL"
    /\ Len(acc.reasons) = 1
    /\ args.timeframe = "M1"
    /\ result = NoSignal

\* C14: a call for the one-minute timeframe, spelled "1m" as the
\* application spells it, emits no signal with fewer than 2 reasons.
C14_OneMinuteNeedsTwo ==
    (result.kind = "signal" /\ args.timeframe = "1m") => Len(acc.reasons) >= 2

Scenario15 == << "RSI extreme oversold reversal", "Bollinger Band breakout", "Fresh MA bullish cross" >>

\* C15: RSI below 20, a fresh breakout above the upper band and a fresh
\* bullish MA cross accumulate 40 + 35 + 25; the signal emitted has
\* confidence 100, direction BUY and the three descriptions as its reason.
C15_ThreeRulesGiveFullConfidence ==
    /\ [][ /\ (spc = "rsi" /\ fired' = "rsi_extreme_oversold") =>
                (acc'.strength = 40 /\ acc'.reasons = Take(Scenario15, 1))
           /\ (spc = "bollinger" /\ acc.reasons = Take(Scenario15, 1) /\ fired' = "bb_breakout") =>
                (acc'.strength = 40 + 35 /\ acc'.reasons = Take(Scenario15, 2))
           /\ (spc = "ma" /\ acc.reasons = Take(Scenario15, 2) /\ fired' = "ma_bullish_cross") =>
                (acc'.strength = 40 + 35 + 25 /\ acc'.reasons = Scenario15) ]_vars
    /\ []( (Len(acc.reasons) >= 3 /\ Take(acc.reasons, 3) = Scenario15) =>
             ( /\ acc.strength >= 100
               /\ acc.direction = "BUY"
               /\ (Scored => ( /\ result.kind = "signal"
                               /\ result.confidence = 100
                               /\ result.direction = "BUY"
                               /\ result.reasons = Scenario15 )) ) )

C15_Witness ==
    /\ Scored
    /\ Len(acc.reasons) > 3
    /\ Take(acc.reasons, 3) = Scenario15
    /\ args.threshold = 85
    /\ result.kind = "signal"
    /\ result.confidence = 100

\* C16: when no branch of any rule holds nothing is accumulated, and the
\* call returns None for every threshold and timeframe.
C16_NoTriggerGivesNone ==
    /\ [][ fired' = NoTrigger => acc' = acc ]_vars
    /\ []( (spc = "done" /\ ~GuardRejects(args) /\ acc = acc0) => result = NoSignal )

C16_Witness ==
    /\ Scored
    /\ acc = acc0
    /\ args.threshold = 0
    /\ args.timeframe = "5m"
    /\ result = NoSignal

\* C17: an emitted signal has confidence min(signal_strength, 100) within
\* 0..100 and not below the threshold, and direction BUY or SELL.
C17_EmittedConfidenceAndDirection ==
    result.kind = "signal" =>
        /\ result.confidence = Min(acc.strength, 100)
        /\ 0 <= result.confidence /\ result.confidence <= 100
        /\ result.confidence >= args.threshold
        /\ result.direction \in {"BUY", "SELL"}

C17_Witness ==
    /\ result.kind = "signal"
    /\ acc.strength > 100
    /\ result.confidence = 100

----------------------------------------------------------------------------
(* Claims about the presentation layers *)

\* C18: in the polling loop a candidate for which add_signal returned False
\* is not displayed as a signal.
C18_RejectedNotDisplayed ==
    ( /\ view.handler = "page"
      /\ view.branch = "poll"
      /\ view.candidate # NoCandidate
      /\ ~view.accepted )
    => view.box # "signal"

\* C19: when the evaluation yielded no signal for any pair, the page and the
\* endpoint present no pair with a direction.
C19_NoSignalPresentsNothing ==
    ( /\ \/ view.handler = "page" /\ view.branch = "poll"
         \/ view.handler = "api" /\ view.branch = "imported" /\ view.box = "response"
      /\ view.candidate = NoCandidate )
    => view.shown = Nothing

\* The pair "XXX/YYY" of a symbol XXXYYY=X.
ExpectedPair(symbol) ==
    Join(SubSeq(symbol, 1, 3)) \o "/" \o Join(SubSeq(symbol, 4, 6))

\* C20: a signal emitted for the symbol XXXYYY=X, evaluated end to end,
\* carries the pair "XXX/YYY".
C20_PairIdentifiesSymbol ==
    (view.symbol # NoSymbol /\ view.candidate # NoCandidate)
    => view.candidate.pair = ExpectedPair(view.symbol)

----------------------------------------------------------------------------
(* Claims about the engine's cache and helpers *)

\* C21: get_market_data answers from the cache, without calling the
\* provider, exactly when the key's entry was stored less than 60 seconds
\* earlier; an older entry, however old, is fetched again.
C21_CacheHitIffFresh ==
    served.kind = "call" =>
        (served.hit <=> (served.age # NoTimestamp /\ served.age < seconds(cache_timeout)))

\* The sessions whose half-open interval of UTC hours contains the hour.
SessionsContaining(hour) ==
    { n \in {"Tokyo", "London", "New_York"} :
        \/ n = "Tokyo" /\ hour \in 0..8
        \/ n = "London" /\ hour \in 8..16
        \/ n = "New_York" /\ hour \in 13..21 }

\* C22: for every UTC hour 0..23 get_market_session returns exactly the
\* sessions whose half-open interval contains the hour (Tokyo [0,9), London
\* [8,17), New_York [13,22)), with volatility High when at least two are
\* active, Medium when exactly one is, and {Off-Hours} with Low when none is.
C22_SessionsOfHour ==
    (fncall.fn = "get_market_session" /\ ~fncall.fails) =>
        LET n == Cardinality(SessionsContaining(fncall.hour)) IN
        /\ n >= 2 => fnret = [sessions |-> SessionsContaining(fncall.hour),
                              volatility |-> "High"]
        /\ n = 1 => fnret = [sessions |-> SessionsContaining(fncall.hour),
                             volatility |-> "Medium"]
        /\ n = 0 => fnret = [sessions |-> {"Off-Hours"}, volatility |-> "Low"]

\* The hour at which the Tokyo session has just closed and London alone is open.
C22_Witness ==
    /\ fncall.fn = "get_market_session" /\ ~fncall.fails
    /\ fncall.hour = 9
    /\ fnret = [sessions |-> {"London"}, volatility |-> "Medium"]

\* A series, or each series of a mapping, all undefined over the argument's index.
AllUndefinedLike(r, prices) ==
    LET u == [kind |-> "series", index |-> prices.index, values |-> "undefined"] IN
    \/ r = u
    \/ r.kind = "mapping" /\ r.keys # {} /\ r.each = u

\* C23: no indicator function raises: on any input on which its computation
\* fails, input that is no proper series included, it returns an
\* all-undefined series (or mapping of them) with the input's length and index.
C23_IndicatorsNeverRaise ==
    fncall.fn \in IndicatorFns =>
        /\ fnret # Raised
        /\ Computed(fncall.data, fncall.period) = Raised
              => (fncall.data.kind = "series" => AllUndefinedLike(fnret, fncall.data))

----------------------------------------------------------------------------
(* Claims about the polling loop *)

\* C24: with the page left open and nobody touching it the polling loop keeps
\* evaluating: whenever 30 seconds have passed since the session started or
\* since the previous evaluation, a run of the script is pending (the script
\* has asked for it), so that the next evaluation takes place.
C24_LoopKeepsPolling ==
    (view.handler = "page" /\ now - last_signal_check >= seconds(PollSeconds)) => rerun

----------------------------------------------------------------------------
(* Claims about the volume, sentiment and momentum rules *)

\* C25: the volume rule only boosts an existing direction: it adds its
\* weight (20 above 1.8 times the mean, 10 above 1.3 times) and its reason
\* only when an earlier rule has set signal_direction, and it never sets or
\* changes the direction.
C25_VolumeBoostsExistingDirection ==
    [][ (spc = "volume" /\ spc' = "news") =>
          /\ acc'.direction = acc.direction
          /\ acc.direction = NoDirection => acc' = acc
          /\ (acc.direction # NoDirection /\ fired' = "volume_surge")
                => acc'.strength = acc.strength + 20
          /\ (acc.direction # NoDirection /\ fired' = "volume_above")
                => acc'.strength = acc.strength + 10 ]_vars

\* C26: the sentiment rule acts only when |sentiment| > 0.3: a sign that
\* agrees with the current direction adds 15; with no direction set the sign
\* sets it (positive BUY, negative SELL) and adds 10; a sign that disagrees
\* changes nothing; a failing fetch changes nothing and the call goes on.
C26_SentimentRule ==
    [][ (spc = "news" /\ spc' # "news") =>
          LET sign == IF fired' = "news_positive" THEN "BUY" ELSE "SELL" IN
          /\ spc' = "accept"
          /\ (fired' = NoTrigger \/ absorbed' # absorbed) => acc' = acc
          /\ (fired' # NoTrigger /\ acc.direction = sign)
                => /\ acc'.strength = acc.strength + 15
                   /\ acc'.direction = sign
          /\ (fired' # NoTrigger /\ acc.direction = NoDirection)
                => /\ acc'.strength = acc.strength + 10
                   /\ acc'.direction = sign
          /\ (fired' # NoTrigger /\ acc.direction \notin {sign, NoDirection})
                => acc' = acc ]_vars

\* A negative sentiment has met a BUY direction voted by an earlier rule.
C26_Witness ==
    /\ spc = "accept"
    /\ fired = "news_negative"
    /\ acc.direction = "BUY"
    /\ acc.strength > 0

\* C27: the technical reasons of every emitted signal are ordered
\* most-significant first: no reason is preceded by a reason whose rule
\* contributed a smaller weight.
C27_ReasonsByWeight ==
    result.kind = "signal" =>
        \A i, j \in 1..Len(result.reasons) :
            i < j => ReasonWeight(result.reasons[i]) >= ReasonWeight(result.reasons[j])

\* C28: for each timeframe, a signal emitted under High session volatility
\* gets a shorter expiry than a signal of the same timeframe gets under
\* Medium or Low volatility.
C28_ShorterExpiryUnderHigh ==
    (result.kind = "signal" /\ result.volatility = "High") =>
        /\ result.expiry_minutes < ExpiryMinutes(args.timeframe, "Medium")
        /\ result.expiry_minutes < ExpiryMinutes(args.timeframe, "Low")

\* C29: analyze_short_term_momentum returns Strong_Bullish iff change > 0.02%
\* and ratio > 1.2, Strong_Bearish iff change < -0.02% and ratio > 1.2,
\* otherwise Bullish iff change > 0.01%, Bearish iff change < -0.01%, and
\* Neutral in every remaining case (fewer than 10 bars and any error
\* included); in the scorer only the two Strong results contribute, each
\* with weight 15.
C29_MomentumClasses ==
    fncall.fn = "analyze_short_term_momentum" =>
        LET usable == ~fncall.fails /\ fncall.bars >= 10
            up == usable /\ fncall.change > 20 /\ fncall.ratio > 12
            down == usable /\ fncall.change < 0 - 20 /\ fncall.ratio > 12
            strong == up \/ down
        IN /\ fnret.momentum = "Strong_Bullish" <=> up
           /\ fnret.momentum = "Strong_Bearish" <=> down
           /\ fnret.momentum = "Bullish" <=> (usable /\ ~strong /\ fncall.change > 10)
           /\ fnret.momentum = "Bearish" <=> (usable /\ ~strong /\ fncall.change < 0 - 10)
           /\ fnret.momentum = "Neutral"
                 <=> (~usable \/ (~strong /\ fncall.change >= 0 - 10 /\ fncall.change <= 10))
           /\ ~strong => fnret.acc = fncall.acc
           /\ (up /\ fncall.acc.direction # "SELL")
                 => /\ fnret.acc.strength = fncall.acc.strength + 15
                    /\ fnret.acc.direction = "BUY"
           /\ (down /\ fncall.acc.direction # "BUY")
                 => /\ fnret.acc.strength = fncall.acc.strength + 15
                    /\ fnret.acc.direction = "SELL"

\* A change above 0.02% without the volume: Bullish, and no contribution.
C29_Witness ==
    /\ fncall.fn = "analyze_short_term_momentum"
    /\ ~fncall.fails /\ fncall.bars = 10
    /\ fncall.change = 21 /\ fncall.ratio = 12
    /\ fnret.momentum = "Bullish"
    /\ fnret.acc = fncall.acc

----------------------------------------------------------------------------
(* Claims about the retention purge *)

\* The entries the purge is to keep: those whose timestamp is later than
\* now minus the retention, in their order.
Retained(sigs, t, d) ==
    SelectSeq(sigs, LAMBDA s : ~(s.timestamp # NoTimestamp /\ s.timestamp <= t - days(d)))

\* C30: cleanup_old_signals(days) removes exactly the entries whose timestamp
\* is not later than now minus days, keeps every other entry in its prior
\* relative order, never adds an entry, and persists the result.
C30_CleanupPurgesAndPersists ==
    [][ (last'.op = "cleanup" /\ steps' # steps) =>
          /\ signals' = Retained(signals, now, last'.days)
          /\ _load_signals(file').items = signals' ]_vars

----------------------------------------------------------------------------
(* Claims about the RSI *)

\* C31: wherever calculate_rsi is defined its value lies in [0, 100], and
\* where the average loss over the period is 0 while the average gain is
\* positive the result is 100 rather than a division fault.
C31_RsiBounded ==
    fncall.fn = "rsi" =>
        \A i \in 1..Len(fncall.prices) :
            /\ fnret[i] # Undefined => (0 <= fnret[i] /\ fnret[i] <= 10000)
            /\ (/\ i >= fncall.period
                /\ RollingSum(fncall.prices, i, fncall.period, FALSE) = 0
                /\ RollingSum(fncall.prices, i, fncall.period, TRUE) > 0)
                  => fnret[i] = 10000

\* Prices that only rise: no loss in the window, and the RSI is 100.
C31_Witness ==
    /\ fncall.fn = "rsi"
    /\ fncall.prices = <<1, 2, 3>>
    /\ fncall.period = 2
    /\ fnret = <<Undefined, 10000, 10000>>

----------------------------------------------------------------------------
(* Further claims about the store *)

\* C32: add_signal's return value reports what happened to the store: True
\* only if the signal was inserted at the head of the history, and whenever
\* it returns False the history in memory and the persisted file are as
\* they were before the call, for any record.
C32_ReturnReportsStore ==
    [][ (last'.op = "add" /\ steps' # steps) =>
          /\ last'.ret => (signals' # << >> /\ signals'[1] = last'.arg)
          /\ ~last'.ret => (signals' = signals /\ file' = file) ]_vars

\* C33: the content of recorded signals cannot switch the rate limit off:
\* after any sequence of add_signal calls with arbitrary records (one without
\* a timestamp included) the store never holds more than 3 records whose
\* timestamp lies within the trailing hour.
C33_LimitHoldsForAnyRecords ==
    Cardinality({i \in 1..Len(signals) :
                   /\ signals[i].timestamp # NoTimestamp
                   /\ signals[i].timestamp > now - hours(1)
                   /\ signals[i].timestamp <= now}) <= max_signals_per_hour

----------------------------------------------------------------------------
(* Further claims about the scorer *)

\* The sum of the weights of the reasons that have the direction or none.
RECURSIVE WeightOf(_, _)
WeightOf(reasons, dir) ==
    IF reasons = << >> THEN 0
    ELSE (IF ReasonDirection(Head(reasons)) \in {NoDirection, dir}
          THEN ReasonWeight(Head(reasons)) ELSE 0) + WeightOf(Tail(reasons), dir)

\* C34: the confidence of an emitted signal counts only rules that vote for
\* its direction: every directional reason listed in the signal belongs to a
\* rule of the emitted direction, and signal_strength holds no weight of a
\* rule of the opposite direction.
C34_OnlyAgreeingRulesCount ==
    result.kind = "signal" =>
        /\ \A i \in 1..Len(result.reasons) :
              ReasonDirection(result.reasons[i]) \in {NoDirection, result.direction}
        /\ acc.strength = WeightOf(acc.reasons, result.direction)

\* C35: in any scoring pass at most one rule triggers in each of the seven
\* groups, so signal_strength never exceeds 170, at most 7 reasons are
\* collected, and signal_strength is never negative.
C35_OneRulePerGroup ==
    /\ [](acc.strength >= 0 /\ acc.strength <= 170 /\ Len(acc.reasons) <= 7)
    /\ [][ (spc \in {"rsi", "bollinger", "ma", "macd", "momentum", "volume", "news"}) =>
             /\ Len(acc'.reasons) <= Len(acc.reasons) + 1
             /\ acc'.strength >= acc.strength
             /\ (acc'.strength > acc.strength) <=> (Len(acc'.reasons) > Len(acc.reasons)) ]_vars

\* A pass in which a rule of every group has triggered.
C35_Witness ==
    /\ spc = "accept"
    /\ acc.strength = 170
    /\ Len(acc.reasons) = 7

----------------------------------------------------------------------------
(* Claims about shared use of the history file *)

\* C36: when two SignalManager instances use the same history file no
\* accepted signal is lost: every signal either instance accepted is in
\* the persisted history (fewer than 100 signals are recorded and none is
\* purged here).
C36_NoAcceptedSignalLost ==
    \A k \in 1..Len(results) :
        \E i \in 1..Len(_load_signals(file).items) :
            _load_signals(file).items[i] = results[k]

----------------------------------------------------------------------------
(* Claims about the query operations *)

\* C37: get_recent_signals, get_signals_by_pair, get_signals_today,
\* get_performance_stats, get_signal_statistics and export_signals change
\* neither the history in memory (content and order) nor the persisted
\* file, and each returns a value.
C37_QueriesChangeNothing ==
    [][ (last'.op \in QueryOps /\ steps' # steps) =>
          /\ signals' = signals
          /\ container' = container
          /\ file' = file
          /\ fncall'.fn = last'.op ]_vars

\* get_recent_signals(1) has returned the newest of several stored signals.
C37_Witness ==
    /\ last.op = "get_recent_signals"
    /\ Len(signals) > 1
    /\ fnret = <<signals[1]>>

----------------------------------------------------------------------------
(* Claims about the idle branch of the page *)

\* C38: in its idle branch the page shows the newest stored signal again
\* only while that signal is less than 120 seconds old; an older signal,
\* however old, is never displayed as a current signal.
C38_OnlyFreshSignalShown ==
    [][ (rerun /\ ~rerun' /\ view'.branch = "idle" /\ view'.box = "signal") =>
          /\ signals # << >>
          /\ now - signals[1].timestamp < seconds(ShowSeconds) ]_vars

====
